---- MODULE Spec2Model ----
(***************************************************************************)
(* A model of pdfsmith's compression core: the three compression           *)
(* strategies (pikepdf, Ghostscript, combined), the orchestrator           *)
(* PDFCompressor that runs them and keeps the smallest output, the         *)
(* parallel batch executor ParallelCompressor and the compress command     *)
(* that calls them; and of unlock_pdf and parse_page_spec.                 *)
(*                                                                         *)
(* A file is a record [by, size]: who wrote it and how many bytes it has.  *)
(* Two files are byte-identical when the records are equal.  The document  *)
(* library and the external tool are opaque: what they do on one call is   *)
(* a behaviour record chosen by the environment.                           *)
(***************************************************************************)
EXTENDS Integers, Sequences, FiniteSets, TLC

\* Largest file size (in bytes) the model draws.
MaxSize == 3

Sizes == 0..MaxSize

---------------------------------------------------------------------------
\* Paths and files

InputPath == "in.pdf"

OtherPath == "out.pdf"

\* strategy_{i}.pdf inside the orchestrator's temporary directory
TmpSlots == <<"strategy_0.pdf", "strategy_1.pdf", "strategy_2.pdf">>

\* A strategy output that is the destination itself.
DestinationSlot(i) == OtherPath

TmpSlot(i) == TmpSlots[i]

\* gs_output.pdf inside the combined strategy's temporary directory
IntermediatePath == "gs_output.pdf"

Paths == {InputPath, OtherPath, IntermediatePath} \cup {TmpSlots[i] : i \in 1..Len(TmpSlots)}

Absent == [by |-> "absent", size |-> 0]

File(by, size) == [by |-> by, size |-> size]

Exists(files, p) == files[p] # Absent

\* What an interrupted writer leaves behind.
PartialFile == File("partial", 1)

NoPath == "None"

NoMessage == <<>>

---------------------------------------------------------------------------
\* Strategy contract

\* CompressionStrategy._get_file_size
GetFileSize(files, p) == IF Exists(files, p) THEN files[p].size ELSE 0

CompressionResult(success, out, orig, size, name, msg) ==
    [success |-> success, output_path |-> out, original_size |-> orig,
     compressed_size |-> size, strategy_name |-> name, error_message |-> msg]

\* What a call of compress gives its caller: a result, or an exception.
Returned(res, files) == [raised |-> "none", res |-> res, files |-> files]

NoResult == CompressionResult(FALSE, NoPath, 0, 0, <<>>, NoMessage)

Raised(exception, files) == [raised |-> exception, res |-> NoResult, files |-> files]

---------------------------------------------------------------------------
\* PikepdfStrategy

\* What the document library does on one open-and-save.
PikeBehaviours ==
    [kind : {"ok"}, size : Sizes, partial : {FALSE}]
    \cup [kind : {"open_fails"}, size : {0}, partial : {FALSE}]
    \cup [kind : {"save_fails"}, size : {0}, partial : BOOLEAN]

PikepdfCompress(files, inp, out, b) ==
    LET original_size == GetFileSize(files, inp)
        failed(msg, fs2) ==
            Returned(CompressionResult(FALSE, NoPath, original_size, 0,
                                       <<"pikepdf">>, msg), fs2)
    IN  IF ~Exists(files, inp) \/ b.kind = "open_fails"
        THEN failed(<<"cannot open">>, files)
        ELSE IF b.kind = "save_fails"
        THEN failed(<<"cannot save">>,
                    IF b.partial THEN [files EXCEPT ![out] = PartialFile] ELSE files)
        ELSE LET by == IF files[inp].by = "ghostscript" THEN "gs+pikepdf" ELSE "pikepdf"
                 fs2 == [files EXCEPT ![out] = File(by, b.size)]
             IN  Returned(CompressionResult(TRUE, out, original_size,
                                            GetFileSize(fs2, out), <<"pikepdf">>,
                                            NoMessage), fs2)

---------------------------------------------------------------------------
\* GhostscriptStrategy

Qualities == {"screen", "ebook"}

\* A mapping that falls back to the general-purpose preset.
QualitySettingOrDefault(q) ==
    CASE q = "screen" -> "/screen"
      [] q = "ebook" -> "/ebook"
      [] q = "printer" -> "/printer"
      [] q = "prepress" -> "/prepress"
      [] OTHER -> "/default"

\* GhostscriptStrategy.QUALITY_SETTINGS with the .get(quality, "/screen") default
QualitySetting(q) ==
    CASE q = "screen" -> "/screen"
      [] q = "ebook" -> "/ebook"
      [] q = "printer" -> "/printer"
      [] q = "prepress" -> "/prepress"
      [] q = "default" -> "/default"
      [] OTHER -> "/screen"

\* What the external tool does on one run: exits 0 having written its output
\* or not, exits non-zero with its diagnostics (empty, text, or bytes that are
\* not UTF-8), exceeds the timeout, or cannot be started at all.
GsBehaviours ==
    [kind : {"ok"}, size : Sizes, partial : {FALSE}, stderr : {"empty"}]
    \cup [kind : {"ok_nofile"}, size : {0}, partial : {FALSE}, stderr : {"empty"}]
    \cup [kind : {"exit_nonzero"}, size : {0}, partial : BOOLEAN,
          stderr : {"empty", "text", "undecodable"}]
    \cup [kind : {"timeout"}, size : {0}, partial : BOOLEAN, stderr : {"empty"}]
    \cup [kind : {"oserror"}, size : {0}, partial : {FALSE}, stderr : {"empty"}]

\* The except CalledProcessError clause: e.stderr.decode() if e.stderr else str(e).
\* decode() raises on bytes that are not UTF-8, inside the handler, where the
\* later except clauses of the same try do not apply.
DecodeRaises(b) == b.stderr = "undecodable"

GsErrorMessage(b) ==
    IF b.stderr = "text" THEN <<"Ghostscript error: ", "diagnostics">>
    ELSE <<"Ghostscript error: ", "non-zero exit status">>

GsTimeoutMessage == <<"Ghostscript timeout exceeded (5 minutes)">>

GhostscriptCompress(files, inp, out, quality, b) ==
    LET original_size == GetFileSize(files, inp)
        written == IF b.kind = "ok" THEN [files EXCEPT ![out] = File("ghostscript", b.size)]
                   ELSE IF b.partial THEN [files EXCEPT ![out] = PartialFile]
                   ELSE files
        failed(msg) ==
            Returned(CompressionResult(FALSE, NoPath, original_size, 0,
                                       <<"ghostscript">>, msg), written)
    IN  CASE b.kind \in {"ok", "ok_nofile"} ->
                Returned(CompressionResult(TRUE, out, original_size,
                                           GetFileSize(written, out),
                                           <<"ghostscript", quality>>, NoMessage),
                         written)
          [] b.kind = "exit_nonzero" ->
                IF DecodeRaises(b) THEN Raised("UnicodeDecodeError", written)
                ELSE failed(GsErrorMessage(b))
          [] b.kind = "timeout" -> failed(GsTimeoutMessage)
          [] OTHER -> failed(<<"cannot run gs">>)

---------------------------------------------------------------------------
\* CombinedStrategy

\* Leaving the with-block removes the temporary directory and gs_output.pdf.
RemoveIntermediate(files) == [files EXCEPT ![IntermediatePath] = Absent]

\* A failed result that still names the intermediate file as its output.
CombinedFailedWithPath(original_size, msg, files) ==
    Returned(CompressionResult(FALSE, IntermediatePath, original_size, 0,
                               <<"combined">>, msg),
             RemoveIntermediate(files))

CombinedFailed(original_size, msg, files) ==
    Returned(CompressionResult(FALSE, NoPath, original_size, 0, <<"combined">>, msg),
             RemoveIntermediate(files))

\* A stage 2 that reports its failure under the prefix of stage 1.
CombinedAfterPikepdfSamePrefix(pike, out, quality, original_size) ==
    IF ~pike.res.success
    THEN CombinedFailed(original_size,
                        <<"Ghostscript stage failed: ">> \o pike.res.error_message,
                        pike.files)
    ELSE Returned(CompressionResult(TRUE, out, original_size,
                                    pike.res.compressed_size,
                                    <<"combined", quality>>, NoMessage),
                  RemoveIntermediate(pike.files))

\* From the return of stage 2 (pike: what pikepdf_strategy.compress gave)
CombinedAfterPikepdf(pike, out, quality, original_size) ==
    IF ~pike.res.success
    THEN CombinedFailed(original_size,
                        <<"Pikepdf stage failed: ">> \o pike.res.error_message,
                        pike.files)
    ELSE Returned(CompressionResult(TRUE, out, original_size,
                                    pike.res.compressed_size,
                                    <<"combined", quality>>, NoMessage),
                  RemoveIntermediate(pike.files))

\* From the return of stage 1 (gs: what gs_strategy.compress gave)
CombinedAfterGhostscript(gs, out, quality, bp, original_size) ==
    IF gs.raised # "none" THEN Raised(gs.raised, RemoveIntermediate(gs.files))
    ELSE IF ~gs.res.success
    THEN CombinedFailed(original_size,
                        <<"Ghostscript stage failed: ">> \o gs.res.error_message,
                        gs.files)
    ELSE CombinedAfterPikepdf(PikepdfCompress(gs.files, IntermediatePath, out, bp),
                              out, quality, original_size)

CombinedCompress(files, inp, out, quality, bg, bp) ==
    CombinedAfterGhostscript(
        GhostscriptCompress(files, inp, IntermediatePath, quality, bg),
        out, quality, bp, GetFileSize(files, inp))

---------------------------------------------------------------------------
\* PDFCompressor

VARIABLES
    pc,             \* where the caller of PDFCompressor is
    fs,             \* the filesystem: path -> file
    gs_found,       \* whether shutil.which finds a Ghostscript executable
    quality,        \* self.quality
    output_path,    \* the destination given to compress
    original_size,  \* compress: original_size
    results,        \* compress: results
    calls,          \* the strategy.compress calls made: <<strategy, output path>>
    outcome,        \* the CompressionOutcome compress returned
    exc,            \* the exception that reached the caller ("none": none)
    exc_at,         \* the place it was raised at
    copy_src,       \* the path the final shutil.copy2 read
    copy_data       \* the file that was there

orchestrator_vars ==
    <<pc, fs, gs_found, quality, output_path, original_size, results, calls,
      outcome, exc, exc_at, copy_src, copy_data>>

VARIABLES
    bpc,            \* where the caller of compress_batch is
    tasks,          \* compress_batch: tasks, a list of <<input_path, output_path>>
    has_callback,   \* whether on_complete was given
    workers_arg,    \* the max_workers given to ParallelCompressor (0: None or 0)
    cpu_count,      \* what os.cpu_count() returns (0: None)
    max_workers,    \* self.max_workers
    plan,           \* what the library and the tool will do in each task's worker
    inputs,         \* the file at each task's input path
    outputs,        \* the file at each task's output path
    fut,            \* the future of each task
    died,           \* the tasks whose worker process died while running them
    outcomes,       \* compress_batch: outcomes
    collected,      \* the task indices in the order as_completed yielded them
    cb_log,         \* the on_complete calls made, in order: <<index, outcome>>
    batch_exc,      \* the exception that left compress_batch ("none": none)
    batch_result    \* the list compress_batch returned

batch_vars ==
    <<bpc, tasks, has_callback, workers_arg, cpu_count, max_workers, plan, inputs,
      outputs, fut, died, outcomes, collected, cb_log, batch_exc, batch_result>>

VARIABLES
    spc,            \* where the caller of one strategy's compress is
    s_name,         \* the strategy called
    s_quality,      \* compress: quality
    s_files,        \* the filesystem of that call
    s_original_size, \* compress: original_size
    stages,         \* the compress calls made so far: [stage, ret]
    gs_cmd,         \* the cmd list given to subprocess.run (<<>>: not run)
    gs_did,         \* what the tool did on that run
    s_ret           \* what compress gave its caller

strategy_vars ==
    <<spc, s_name, s_quality, s_files, s_original_size, stages, gs_cmd, gs_did,
      s_ret>>

VARIABLES
    rpc,            \* which reduction properties have been read
    r_original,     \* original_size of the result or outcome
    r_compressed,   \* its compressed_size or final_size
    r_ratio,        \* the reduction_ratio read
    r_percent       \* the reduction_percent read

ratio_vars == <<rpc, r_original, r_compressed, r_ratio, r_percent>>

VARIABLES
    cpc,            \* where the compress command is
    c_files,        \* main: files, as given on the command line
    c_output,       \* main: output (-o)
    c_output_dir,   \* main: output_dir (-d)
    c_in_place,     \* main: in_place (-i)
    c_quality,      \* main: quality (-Q)
    c_jobs,         \* main: jobs (-j)
    c_dry_run,      \* main: dry_run (-n)
    c_exit,         \* the exit code of typer.Exit (NoExit: none raised)
    c_mode,         \* the compressor the files went to
    c_handed,       \* the quality that compressor was constructed with
    c_workers,      \* the max_workers ParallelCompressor was constructed with
    c_tasks         \* the <<input_path, output_path>> pairs the compressor is given

VARIABLES
    upc,            \* where the caller of unlock_pdf is
    u_input,        \* what the file at input_path is
    u_password,     \* the password given
    u_dir,          \* whether output_path.parent is a directory to write in
    u_out,          \* the file at output_path
    u_out_before,   \* the file that was there at the call
    u_tmp,          \* the temporary file next to the output
    u_tmp_path,     \* unlock_pdf: tmp_path
    u_failure,      \* the step that failed ("none": none)
    u_result,       \* the UnlockResult returned
    u_exc           \* the exception that reached the caller ("none": none)

unlock_vars ==
    <<upc, u_input, u_password, u_dir, u_out, u_out_before, u_tmp, u_tmp_path, u_failure,
      u_result, u_exc>>

VARIABLES
    ppc,            \* where the caller of parse_page_spec is
    p_spec,         \* parse_page_spec: spec, a sequence of characters
    p_total,        \* parse_page_spec: total_pages
    p_ret           \* what parse_page_spec gave: the list returned, or the error

pages_vars == <<ppc, p_spec, p_total, p_ret>>

command_vars ==
    <<cpc, c_files, c_output, c_output_dir, c_in_place, c_quality, c_jobs,
      c_dry_run, c_exit, c_mode, c_handed, c_workers, c_tasks>>

vars ==
    <<orchestrator_vars, batch_vars, strategy_vars, ratio_vars, command_vars,
      unlock_vars, pages_vars>>

\* self.strategies, in registration order
Strategies == <<"pikepdf", "ghostscript", "combined">>

CompressionOutcome(inp, out, orig, final, best, all) ==
    [input_path |-> inp, output_path |-> out, original_size |-> orig,
     final_size |-> final, best_strategy |-> best, all_results |-> all]

NoOutcome == CompressionOutcome(NoPath, NoPath, 0, 0, <<>>, <<>>)

\* CompressionOutcome.improved
Improved(o) == o.final_size < o.original_size

\* GhostscriptStrategy._find_ghostscript: the executable's name, or RuntimeError
FindGhostscript(found) == IF found THEN "gs" ELSE "RuntimeError"

\* PDFCompressor.__init__ builds PikepdfStrategy(), GhostscriptStrategy() and
\* CombinedStrategy() (which builds a GhostscriptStrategy of its own): the
\* exception of the first constructor that raises, or "none".
ConstructStrategies(found) ==
    IF FindGhostscript(found) = "RuntimeError" THEN "RuntimeError" ELSE "none"

\* strategy.compress(input_path, strategy_output, self.quality) of the i-th strategy
StrategyCompress(name, files, inp, out, q, bg, bp) ==
    CASE name = "pikepdf" -> PikepdfCompress(files, inp, out, bp)
      [] name = "ghostscript" -> GhostscriptCompress(files, inp, out, q, bg)
      [] OTHER -> CombinedCompress(files, inp, out, q, bg, bp)

\* The behaviours that matter to a strategy (the others of the pair are fixed).
BehaviourPairs(name) ==
    LET g0 == CHOOSE b \in GsBehaviours : b.kind = "ok_nofile"
        p0 == CHOOSE b \in PikeBehaviours : b.kind = "open_fails"
    IN  CASE name = "pikepdf" -> {<<g0, bp>> : bp \in PikeBehaviours}
          [] name = "ghostscript" -> {<<bg, p0>> : bg \in GsBehaviours}
          [] OTHER -> GsBehaviours \X PikeBehaviours

\* A scan that also replaces the best result by one of equal size.
ImprovesOrEqual(result, best_size) ==
    result.success /\ result.compressed_size <= best_size

\* if result.success and result.compressed_size < best_size
Improves(result, best_size) == result.success /\ result.compressed_size < best_size

\* The scan for the best result: the index of best_result (0: None) after the
\* results from the i-th on have been looked at.
RECURSIVE ScanBest(_, _, _, _)
ScanBest(rs, i, best, best_size) ==
    IF i > Len(rs) THEN best
    ELSE IF Improves(rs[i], best_size)
    THEN ScanBest(rs, i + 1, i, rs[i].compressed_size)
    ELSE ScanBest(rs, i + 1, best, best_size)

\* A scan that starts from no size at all instead of the original size.
SelectBestAnySuccess(rs, orig) == ScanBest(rs, 1, 0, MaxSize + 1)

\* A scan that starts from one byte more than the original size.
SelectBestFromAbove(rs, orig) == ScanBest(rs, 1, 0, orig + 1)

\* best_result = None; best_size = original_size; for result in results: ...
SelectBest(rs, orig) == ScanBest(rs, 1, 0, orig)

\* shutil.copy2(src, dst): the exception it raises, or "none"
Copy2Raises(files, src, dst, dest_ok) ==
    IF ~Exists(files, src) THEN "FileNotFoundError"
    ELSE IF src = dst THEN "SameFileError"
    ELSE IF ~dest_ok THEN "PermissionError"
    ELSE "none"

Copy2(files, src, dst) == [files EXCEPT ![dst] = files[src]]

\* A with-block that leaves its directory behind.
LeaveTmpDir(files) == files

\* Leaving the with-block removes the temporary directory and its strategy_i.pdf.
RemoveTmpDir(files) ==
    [p \in Paths |-> IF \E i \in 1..Len(TmpSlots) : p = TmpSlots[i] THEN Absent
                     ELSE files[p]]

\* compress, from the scan for the best result to the end of the with-block:
\* the outcome returned or the exception raised, the files left, and the path
\* the copy read.
FinishCall(files, out, orig, rs, dest_ok) ==
    LET best == SelectBest(rs, orig)
        won == best # 0 /\ rs[best].output_path # NoPath
        src == IF won THEN rs[best].output_path ELSE InputPath
        raises == Copy2Raises(files, src, out, dest_ok)
    IN  IF raises = "none"
        THEN [raised |-> "none",
              outcome |-> CompressionOutcome(InputPath, out, orig,
                              IF won THEN rs[best].compressed_size ELSE orig,
                              IF won THEN rs[best].strategy_name ELSE <<"none">>,
                              rs),
              files |-> RemoveTmpDir(Copy2(files, src, out)),
              src |-> src]
        ELSE [raised |-> raises, outcome |-> NoOutcome,
              files |-> RemoveTmpDir(files), src |-> src]

InitFiles ==
    {[p \in Paths |-> CASE p = InputPath -> i
                        [] p = OtherPath -> o
                        [] OTHER -> Absent] :
        i \in {Absent} \cup {File("orig", s) : s \in Sizes},
        o \in {Absent, File("old", 1)}}

OrchestratorInit ==
    /\ pc = "new"
    /\ fs \in InitFiles
    /\ gs_found \in BOOLEAN
    /\ quality \in Qualities
    /\ output_path \in {OtherPath, InputPath}
    /\ original_size = 0
    /\ results = <<>>
    /\ calls = <<>>
    /\ outcome = NoOutcome
    /\ exc = "none"
    /\ exc_at = "none"
    /\ copy_src = NoPath
    /\ copy_data = Absent

Raise(exception, at) ==
    /\ pc' = "raised"
    /\ exc' = exception
    /\ exc_at' = at

\* PDFCompressor(quality=quality)
Construct ==
    /\ pc = "new"
    /\ IF ConstructStrategies(gs_found) = "none"
       THEN pc' = "ready" /\ UNCHANGED <<exc, exc_at>>
       ELSE Raise(ConstructStrategies(gs_found), "ctor")
    /\ UNCHANGED <<fs, gs_found, quality, output_path, original_size, results,
                   calls, outcome, copy_src, copy_data>>
    /\ UNCHANGED <<batch_vars, strategy_vars, ratio_vars, command_vars,
                   unlock_vars, pages_vars>>

\* compress, to the creation of the temporary directory
CompressStart ==
    /\ pc = "ready"
    /\ IF Exists(fs, InputPath)
       THEN /\ original_size' = fs[InputPath].size
            /\ pc' = "strategies"
            /\ UNCHANGED <<exc, exc_at>>
       ELSE /\ Raise("FileNotFoundError", "stat")
            /\ UNCHANGED original_size
    /\ UNCHANGED <<fs, gs_found, quality, output_path, results, calls, outcome,
                   copy_src, copy_data>>
    /\ UNCHANGED <<batch_vars, strategy_vars, ratio_vars, command_vars,
                   unlock_vars, pages_vars>>

\* One turn of the loop over self.strategies
RunStrategy ==
    /\ pc = "strategies"
    /\ Len(results) < Len(Strategies)
    /\ calls' = Append(calls, <<Strategies[Len(results) + 1],
                                TmpSlot(Len(results) + 1)>>)
    /\ LET i == Len(results) + 1 IN
       \E b \in BehaviourPairs(Strategies[i]) :
          LET r == StrategyCompress(Strategies[i], fs, InputPath, TmpSlot(i),
                                    quality, b[1], b[2])
          IN  IF r.raised = "none"
              THEN /\ results' = Append(results, r.res)
                   /\ fs' = r.files
                   /\ UNCHANGED <<pc, exc, exc_at>>
              ELSE /\ Raise(r.raised, "strategy")
                   /\ fs' = RemoveTmpDir(r.files)
                   /\ UNCHANGED results
    /\ UNCHANGED <<gs_found, quality, output_path, original_size, outcome,
                   copy_src, copy_data>>
    /\ UNCHANGED <<batch_vars, strategy_vars, ratio_vars, command_vars,
                   unlock_vars, pages_vars>>

\* The caller is interrupted (KeyboardInterrupt) while a strategy is running:
\* no except clause of the strategies catches it, the with-blocks it passes
\* remove their temporary directories, and it leaves compress.
Interrupt ==
    /\ pc = "strategies"
    /\ Len(results) < Len(Strategies)
    /\ Raise("KeyboardInterrupt", "interrupt")
    /\ calls' = Append(calls, <<Strategies[Len(results) + 1],
                                TmpSlot(Len(results) + 1)>>)
    /\ fs' = RemoveTmpDir(RemoveIntermediate(fs))
    /\ UNCHANGED <<gs_found, quality, output_path, original_size, results,
                   outcome, copy_src, copy_data>>
    /\ UNCHANGED <<batch_vars, strategy_vars, ratio_vars, command_vars,
                   unlock_vars, pages_vars>>

\* compress, from the scan for the best result to the return
Finish ==
    /\ pc = "strategies"
    /\ Len(results) = Len(Strategies)
    /\ \E dest_ok \in BOOLEAN :
          LET r == FinishCall(fs, output_path, original_size, results, dest_ok) IN
          /\ copy_src' = r.src
          /\ copy_data' = fs[r.src]
          /\ fs' = r.files
          /\ IF r.raised = "none"
             THEN /\ outcome' = r.outcome
                  /\ pc' = "returned"
                  /\ UNCHANGED <<exc, exc_at>>
             ELSE /\ Raise(r.raised, "copy")
                  /\ UNCHANGED outcome
    /\ UNCHANGED <<gs_found, quality, output_path, original_size, results,
                   calls>>
    /\ UNCHANGED <<batch_vars, strategy_vars, ratio_vars, command_vars,
                   unlock_vars, pages_vars>>

OrchestratorNext ==
    Construct \/ CompressStart \/ RunStrategy \/ Interrupt \/ Finish

---------------------------------------------------------------------------
\* The loop over self.strategies as one call, from the results rs so far: the
\* results of all strategies and the files left, or the exception that ended it.
\* bs[i] is the behaviour pair of the i-th strategy.
RECURSIVE RunStrategies(_, _, _, _)
\* From the return of one strategy (r: what its compress gave)
AfterStrategy(r, q, bs, rs) ==
    IF r.raised # "none"
    THEN [raised |-> r.raised, results |-> rs, files |-> r.files]
    ELSE RunStrategies(r.files, q, bs, Append(rs, r.res))

RunStrategies(files, q, bs, rs) ==
    IF Len(rs) = Len(Strategies)
    THEN [raised |-> "none", results |-> rs, files |-> files]
    ELSE AfterStrategy(
             StrategyCompress(Strategies[Len(rs) + 1], files, InputPath,
                              TmpSlot(Len(rs) + 1), q,
                              bs[Len(rs) + 1][1], bs[Len(rs) + 1][2]),
             q, bs, rs)

CallResult(raised, out, files) == [raised |-> raised, outcome |-> out, files |-> files]

\* From the end of the loop (run: what the loop gave)
AfterStrategies(run, out, orig, dest_ok) ==
    IF run.raised # "none"
    THEN CallResult(run.raised, NoOutcome, RemoveTmpDir(run.files))
    ELSE FinishCall(run.files, out, orig, run.results, dest_ok)

\* The whole of PDFCompressor.compress as one call, for a pool worker: what the
\* stepwise actions above do, composed.
CompressCall(files, out, q, bs, dest_ok) ==
    IF ~Exists(files, InputPath)
    THEN CallResult("FileNotFoundError", NoOutcome, files)
    ELSE AfterStrategies(RunStrategies(files, q, bs, <<>>), out,
                         files[InputPath].size, dest_ok)

\* _compress_single(args), run in a worker process on the files in_file and
\* out_file at the task's two paths.  The worker's files are laid out in a
\* filesystem of its own (every worker has its own temporary directories), and
\* the outcome carries the task's paths.
WorkerFiles(in_file, out_file) ==
    [x \in Paths |-> CASE x = InputPath -> in_file
                       [] x = OtherPath -> out_file
                       [] OTHER -> Absent]

\* From the return of compressor.compress (r: what it gave)
AfterCompress(r, args) ==
    [raised |-> r.raised,
     outcome |-> [r.outcome EXCEPT !.input_path = args[1], !.output_path = args[2]],
     out_file |-> r.files[OtherPath]]

CompressSingle(args, in_file, out_file, found, p) ==
    IF ConstructStrategies(found) # "none"
    THEN [raised |-> ConstructStrategies(found), outcome |-> NoOutcome,
          out_file |-> out_file]
    ELSE AfterCompress(CompressCall(WorkerFiles(in_file, out_file), OtherPath,
                                    args[3], p.bs, p.dest_ok),
                       args)

---------------------------------------------------------------------------
\* ParallelCompressor

\* Most tasks in one batch.
MaxTasks == 2

\* Most worker processes of the pool.
MaxWorkers == 2

BatchInputs == <<"a.pdf", "b.pdf", "c.pdf", "d.pdf">>

BatchOutputs == <<"a.compressed.pdf", "b.compressed.pdf", "c.compressed.pdf",
                  "d.compressed.pdf">>

GsDoes(kind, size, stderr) ==
    [kind |-> kind, size |-> size, partial |-> FALSE, stderr |-> stderr]

PikeDoes(kind, size) == [kind |-> kind, size |-> size, partial |-> FALSE]

\* The worker runs a batch draws from: pikepdf alone succeeds; Ghostscript's
\* diagnostics cannot be decoded; all three succeed with sizes 2, 1, 1.
BatchPlans ==
    {[bs |-> <<<<GsDoes("timeout", 0, "empty"), PikeDoes("ok", 1)>>,
               <<GsDoes("timeout", 0, "empty"), PikeDoes("ok", 1)>>,
               <<GsDoes("timeout", 0, "empty"), PikeDoes("ok", 1)>>>>,
      dest_ok |-> TRUE],
     [bs |-> <<<<GsDoes("exit_nonzero", 0, "undecodable"), PikeDoes("ok", 1)>>,
               <<GsDoes("exit_nonzero", 0, "undecodable"), PikeDoes("ok", 1)>>,
               <<GsDoes("exit_nonzero", 0, "undecodable"), PikeDoes("ok", 1)>>>>,
      dest_ok |-> TRUE],
     [bs |-> <<<<GsDoes("ok", 1, "empty"), PikeDoes("ok", 2)>>,
               <<GsDoes("ok", 1, "empty"), PikeDoes("ok", 2)>>,
               <<GsDoes("ok", 1, "empty"), PikeDoes("ok", 1)>>>>,
      dest_ok |-> TRUE]}

Future(state, value) == [state |-> state, value |-> value]

Done(f) == f.state \in {"result", "exception", "broken"}

TaskIds == 1..Len(tasks)

\* args_list[i]
ArgsOf(i) == <<tasks[i][1], tasks[i][2], quality>>

\* The outcome the except clause builds for task i.
ErrorOutcome(i) ==
    CompressionOutcome(ArgsOf(i)[1], ArgsOf(i)[2],
                       IF inputs[i] # Absent THEN inputs[i].size ELSE 0,
                       0, <<"error">>, <<>>)

\* [o for o in outcomes if o is not None]
NotNone(o) == o # NoOutcome

\* The arguments and machines a batch is drawn from: <<max_workers given,
\* os.cpu_count()>>.  An override of 1..MaxWorkers; None on a machine whose CPU
\* count is unknown, and on one with 9 CPUs; 0 on one with 1 CPU; and -1.
PoolArgs ==
    {<<w, 1>> : w \in 1..MaxWorkers} \cup {<<0, 0>>, <<0, 9>>, <<0, 1>>, <<0 - 1, 1>>}

Min(a, b) == IF a <= b THEN a ELSE b

\* x or y
Or(x, y) == IF x # 0 THEN x ELSE y

\* max_workers or min(os.cpu_count() or 4, 8)
WorkerCount(given, cpus) == Or(given, Min(Or(cpus, 4), 8))

BatchInit ==
    /\ bpc = "new"
    /\ \E n \in 1..MaxTasks :
         /\ tasks = [i \in 1..n |-> <<BatchInputs[i], BatchOutputs[i]>>]
         /\ plan \in [1..n -> BatchPlans]
         /\ inputs = [i \in 1..n |-> File("orig", MaxSize)]
         /\ outputs = [i \in 1..n |-> Absent]
         /\ fut = [i \in 1..n |-> Future("none", NoOutcome)]
         /\ outcomes = [i \in 1..n |-> NoOutcome]
    /\ has_callback \in BOOLEAN
    /\ \E a \in PoolArgs : workers_arg = a[1] /\ cpu_count = a[2]
    /\ max_workers = 0
    /\ died = {}
    /\ collected = <<>>
    /\ cb_log = <<>>
    /\ batch_exc = "none"
    /\ batch_result = <<>>

\* ParallelCompressor(quality, max_workers)
ConstructParallel ==
    /\ bpc = "new"
    /\ bpc' = "called"
    /\ max_workers' = WorkerCount(workers_arg, cpu_count)
    /\ UNCHANGED <<tasks, has_callback, workers_arg, cpu_count, plan, inputs,
                   outputs, fut, died, outcomes, collected, cb_log, batch_exc,
                   batch_result>>
    /\ UNCHANGED <<orchestrator_vars, strategy_vars, ratio_vars, command_vars,
                   unlock_vars, pages_vars>>

\* ProcessPoolExecutor(max_workers=self.max_workers), which raises ValueError
\* unless max_workers is positive, and executor.submit for every task
Submit ==
    /\ bpc = "called"
    /\ IF max_workers > 0
       THEN /\ bpc' = "collecting"
            /\ fut' = [i \in TaskIds |-> Future("pending", NoOutcome)]
            /\ UNCHANGED batch_exc
       ELSE /\ bpc' = "raised"
            /\ batch_exc' = "ValueError"
            /\ UNCHANGED fut
    /\ UNCHANGED <<tasks, has_callback, workers_arg, cpu_count, max_workers,
                   plan, inputs, outputs, died, outcomes, collected, cb_log,
                   batch_result>>
    /\ UNCHANGED <<orchestrator_vars, strategy_vars, ratio_vars, command_vars,
                   unlock_vars, pages_vars>>

\* A free worker process takes the next queued task.
WorkerStart(i) ==
    /\ fut[i].state = "pending"
    /\ \A j \in TaskIds : j < i => fut[j].state # "pending"
    /\ Cardinality({j \in TaskIds : fut[j].state = "running"}) < max_workers
    /\ fut' = [fut EXCEPT ![i] = Future("running", NoOutcome)]
    /\ UNCHANGED <<bpc, tasks, has_callback, workers_arg, cpu_count,
                   max_workers, plan, inputs, outputs, died, outcomes,
                   collected, cb_log, batch_exc, batch_result>>
    /\ UNCHANGED <<orchestrator_vars, strategy_vars, ratio_vars, command_vars,
                   unlock_vars, pages_vars>>

\* The worker runs _compress_single to its end: the future gets the outcome it
\* returned or the exception it raised.
WorkerDone(i, r) ==
    /\ fut' = [fut EXCEPT ![i] = IF r.raised = "none"
                                 THEN Future("result", r.outcome)
                                 ELSE Future("exception", NoOutcome)]
    /\ outputs' = [outputs EXCEPT ![i] = r.out_file]

WorkerFinish(i) ==
    /\ fut[i].state = "running"
    /\ WorkerDone(i, CompressSingle(ArgsOf(i), inputs[i], outputs[i], gs_found,
                                    plan[i]))
    /\ UNCHANGED <<bpc, tasks, has_callback, workers_arg, cpu_count,
                   max_workers, plan, inputs, died, outcomes, collected, cb_log,
                   batch_exc, batch_result>>
    /\ UNCHANGED <<orchestrator_vars, strategy_vars, ratio_vars, command_vars,
                   unlock_vars, pages_vars>>

\* The process running task i dies.  ProcessPoolExecutor then marks the pool
\* broken: every future that is not done yet, queued or running, gets
\* BrokenProcessPool as its exception, and the other workers are terminated.
BreakPool(futures) ==
    [j \in DOMAIN futures |-> IF Done(futures[j]) THEN futures[j]
                              ELSE Future("broken", NoOutcome)]

WorkerDies(i) ==
    /\ fut[i].state = "running"
    /\ fut' = BreakPool(fut)
    /\ died' = died \cup {i}
    /\ UNCHANGED <<bpc, tasks, has_callback, workers_arg, cpu_count,
                   max_workers, plan, inputs, outputs, outcomes, collected,
                   cb_log, batch_exc, batch_result>>
    /\ UNCHANGED <<orchestrator_vars, strategy_vars, ratio_vars, command_vars,
                   unlock_vars, pages_vars>>

\* Someone removes a task's input file while the batch runs, after the worker
\* is done with it and before its future is looked at.
DeleteInput(i) ==
    /\ bpc = "collecting"
    /\ Done(fut[i])
    /\ \A k \in 1..Len(collected) : collected[k] # i
    /\ inputs[i] # Absent
    /\ inputs' = [inputs EXCEPT ![i] = Absent]
    /\ UNCHANGED <<bpc, tasks, has_callback, workers_arg, cpu_count,
                   max_workers, plan, outputs, fut, died, outcomes, collected,
                   cb_log, batch_exc, batch_result>>
    /\ UNCHANGED <<orchestrator_vars, strategy_vars, ratio_vars, command_vars,
                   unlock_vars, pages_vars>>

\* A call that reports the tasks in submission order, whichever completed.
CallInSubmissionOrder(i, o) == <<Len(collected) + 1, o>>

\* on_complete(o), called in the loop turn of task i: the entry of cb_log
Call(i, o) == <<i, o>>

\* One turn of the loop over as_completed, for the future of task i: what the
\* try block and the except clause leave in outcomes[i], the on_complete calls
\* they make, and the exception that leaves the loop.  cb1 and cb2 say whether
\* on_complete raises in its first and second call of this turn.
CollectTurn(i, cb1, cb2) ==
    LET real == fut[i].value
        err == ErrorOutcome(i)
        call(o) == Call(i, o)
    IN  IF fut[i].state = "result" /\ ~(has_callback /\ cb1)
        THEN \* future.result() returned and the callback, if any, returned
             [slot |-> real,
              calls |-> IF has_callback THEN <<call(real)>> ELSE <<>>,
              raised |-> "none"]
        ELSE IF fut[i].state = "result"
        THEN \* on_complete(outcome) raised inside the try block
             [slot |-> err,
              calls |-> <<call(real), call(err)>>,
              raised |-> IF cb2 THEN "CallbackError" ELSE "none"]
        ELSE \* future.result() raised
             [slot |-> err,
              calls |-> IF has_callback THEN <<call(err)>> ELSE <<>>,
              raised |-> IF has_callback /\ cb1 THEN "CallbackError" ELSE "none"]

\* A collector that fills the slots in completion order.
SlotInCompletionOrder(i, n) == n + 1

\* index = future_to_index[future]: the slot of task i, looked at after n others
SlotIndex(i, n) == i

Collect(i) ==
    /\ bpc = "collecting"
    /\ Done(fut[i])
    /\ \A k \in 1..Len(collected) : collected[k] # i
    /\ \E cb1 \in BOOLEAN, cb2 \in BOOLEAN :
         LET t == CollectTurn(i, cb1, cb2) IN
         /\ outcomes' = [outcomes EXCEPT ![SlotIndex(i, Len(collected))] = t.slot]
         /\ cb_log' = cb_log \o t.calls
         /\ batch_exc' = t.raised
         /\ bpc' = IF t.raised = "none" THEN "collecting" ELSE "unwinding"
    /\ collected' = Append(collected, i)
    /\ UNCHANGED <<tasks, has_callback, workers_arg, cpu_count, max_workers,
                   plan, inputs, outputs, fut, died, batch_result>>
    /\ UNCHANGED <<orchestrator_vars, strategy_vars, ratio_vars, command_vars,
                   unlock_vars, pages_vars>>

\* A return as soon as one future has been seen, the others left behind.
ReturnAfterFirst ==
    /\ bpc = "collecting"
    /\ Len(collected) >= 1
    /\ bpc' = "returned"
    /\ batch_result' = SelectSeq(outcomes, NotNone)
    /\ UNCHANGED <<tasks, has_callback, workers_arg, cpu_count, max_workers,
                   plan, inputs, outputs, fut, died, outcomes, collected,
                   cb_log, batch_exc>>
    /\ UNCHANGED <<orchestrator_vars, strategy_vars, ratio_vars, command_vars,
                   unlock_vars, pages_vars>>

\* The loop has seen every future: the with-block shuts the pool down and
\* compress_batch returns.
BatchReturn ==
    /\ bpc = "collecting"
    /\ Len(collected) = Len(tasks)
    /\ bpc' = "returned"
    /\ batch_result' = SelectSeq(outcomes, NotNone)
    /\ UNCHANGED <<tasks, has_callback, workers_arg, cpu_count, max_workers,
                   plan, inputs, outputs, fut, died, outcomes, collected,
                   cb_log, batch_exc>>
    /\ UNCHANGED <<orchestrator_vars, strategy_vars, ratio_vars, command_vars,
                   unlock_vars, pages_vars>>

\* An exception leaves the loop: the with-block's shutdown waits for the work
\* still queued or running, then compress_batch raises.
BatchRaise ==
    /\ bpc = "unwinding"
    /\ \A j \in TaskIds : Done(fut[j])
    /\ bpc' = "raised"
    /\ UNCHANGED <<tasks, has_callback, workers_arg, cpu_count, max_workers,
                   plan, inputs, outputs, fut, died, outcomes, collected,
                   cb_log, batch_exc, batch_result>>
    /\ UNCHANGED <<orchestrator_vars, strategy_vars, ratio_vars, command_vars,
                   unlock_vars, pages_vars>>

BatchNext ==
    \/ ConstructParallel
    \/ Submit
    \/ \E i \in TaskIds : WorkerStart(i)
    \/ \E i \in TaskIds : WorkerFinish(i)
    \/ \E i \in TaskIds : WorkerDies(i)
    \/ \E i \in TaskIds : DeleteInput(i)
    \/ \E i \in TaskIds : Collect(i)
    \/ BatchReturn
    \/ BatchRaise

---------------------------------------------------------------------------
\* Floating point: Python's float is the IEEE 754 binary64 format.  A float is
\* [sign, bits, exp]: sign * bits * 2^exp, bits the significand in binary, most
\* significant bit first, MantissaBits long with a leading 1; zero has no bits.

MantissaBits == 53

\* The arithmetic below works on the binary digits LimbBits at a time.
LimbBits == 16

Zero == [sign |-> 0, bits |-> <<>>, exp |-> 0]

Front(bits) == SubSeq(bits, 1, Len(bits) - 1)

Zeros(n) == [i \in 1..n |-> 0]

Least(S) == CHOOSE x \in S : \A y \in S : x <= y

Greatest(S) == CHOOSE x \in S : \A y \in S : x >= y

Ones(bits) == {i \in 1..Len(bits) : bits[i] = 1}

StripZeros(bits) ==
    IF Ones(bits) = {} THEN <<>> ELSE SubSeq(bits, Least(Ones(bits)), Len(bits))

\* The binary digits of a natural number
RECURSIVE IntBits(_)
IntBits(n) == IF n = 0 THEN <<>> ELSE IntBits(n \div 2) \o <<n % 2>>

\* The last w binary digits of a natural number
ToBits(n, w) == [i \in 1..w |-> (n \div 2^(w - i)) % 2]

RECURSIVE BitsToInt(_)
BitsToInt(bits) ==
    IF bits = <<>> THEN 0 ELSE 2 * BitsToInt(Front(bits)) + bits[Len(bits)]

\* The last limb of a digit sequence, and what is before it
Low(bits) ==
    IF Len(bits) <= LimbBits THEN bits
    ELSE SubSeq(bits, Len(bits) - LimbBits + 1, Len(bits))

High(bits) ==
    IF Len(bits) <= LimbBits THEN <<>> ELSE SubSeq(bits, 1, Len(bits) - LimbBits)

\* bits + 1
Increment(bits) ==
    IF Ones(bits) = DOMAIN bits THEN <<1>> \o Zeros(Len(bits))
    ELSE [i \in 1..Len(bits) |->
            IF i < Greatest(DOMAIN bits \ Ones(bits)) THEN bits[i]
            ELSE IF i = Greatest(DOMAIN bits \ Ones(bits)) THEN 1
            ELSE 0]

\* a > b, for a and b of one length
Greater(a, b) ==
    /\ a # b
    /\ a[Least({i \in 1..Len(a) : a[i] # b[i]})] = 1

\* a - b - borrow, for a >= b of one length
RECURSIVE SubBits(_, _, _)
SubBits(a, b, borrow) ==
    IF a = <<>> THEN <<>>
    ELSE SubBits(High(a), High(b),
                 IF BitsToInt(Low(a)) - BitsToInt(Low(b)) - borrow < 0
                 THEN 1 ELSE 0)
         \o ToBits(BitsToInt(Low(a)) - BitsToInt(Low(b)) - borrow
                      + 2^Len(Low(a)),
                   Len(Low(a)))

\* a * m + carry
RECURSIVE MulBits(_, _, _)
MulBits(a, m, carry) ==
    IF a = <<>> THEN IntBits(carry)
    ELSE MulBits(High(a), m, (BitsToInt(Low(a)) * m + carry) \div 2^Len(Low(a)))
         \o ToBits(BitsToInt(Low(a)) * m + carry, Len(Low(a)))

\* The significand kept, one more after a round up that carried out
RoundedUp(sign, kept, exp) ==
    IF Len(kept) > MantissaBits
    THEN [sign |-> sign, bits |-> Front(kept), exp |-> exp + 1]
    ELSE [sign |-> sign, bits |-> kept, exp |-> exp]

\* Round to nearest, ties to even: bits (leading 1) * 2^exp, plus something
\* below the last bit when sticky, to MantissaBits significant bits.
RoundBits(sign, bits, exp, sticky) ==
    IF Len(bits) <= MantissaBits
    THEN [sign |-> sign, bits |-> bits \o Zeros(MantissaBits - Len(bits)),
          exp |-> exp - (MantissaBits - Len(bits))]
    ELSE IF /\ bits[MantissaBits + 1] = 1
            /\ \/ sticky
               \/ \E i \in (MantissaBits + 2)..Len(bits) : bits[i] = 1
               \/ bits[MantissaBits] = 1
    THEN RoundedUp(sign, Increment(SubSeq(bits, 1, MantissaBits)),
                   exp + Len(bits) - MantissaBits)
    ELSE [sign |-> sign, bits |-> SubSeq(bits, 1, MantissaBits),
          exp |-> exp + Len(bits) - MantissaBits]

Round(sign, bits, exp, sticky) ==
    IF StripZeros(bits) = <<>> THEN Zero
    ELSE RoundBits(sign, StripZeros(bits), exp, sticky)

\* Binary digits of r / d after the point, for r < d: n of them or a few more
RECURSIVE FractionBits(_, _, _)
FractionBits(r, d, n) ==
    IF n <= 0 THEN <<>>
    ELSE ToBits((r * 2^LimbBits) \div d, LimbBits)
         \o FractionBits((r * 2^LimbBits) % d, d, n - LimbBits)

\* What is left of r / d after them
RECURSIVE FractionRest(_, _, _)
FractionRest(r, d, n) ==
    IF n <= 0 THEN r ELSE FractionRest((r * 2^LimbBits) % d, d, n - LimbBits)

\* The quotient with the digits frac after the point, and more below them
\* when sticky
Quotient(whole, frac, sticky) ==
    Round(1, IntBits(whole) \o frac, 0 - Len(frac), sticky)

\* a / d of two ints (d > 0): the float nearest to the quotient.  d + 2
\* digits more than the significand are enough to round, as a / d >= 2^-d.
TrueDiv(a, d) ==
    Quotient(a \div d, FractionBits(a % d, d, MantissaBits + d + 2),
             FractionRest(a % d, d, MantissaBits + d + 2) # 0)

\* 1.0 written with its last bit at 2^exp (exp <= 0)
OneAt(exp) == <<1>> \o Zeros(0 - exp)

\* a - b for significands with their last bits at the same place
SubAligned(a, b, exp) ==
    IF a = b THEN Zero
    ELSE IF Greater(a, b) THEN Round(1, SubBits(a, b, 0), exp, FALSE)
    ELSE Round(0 - 1, SubBits(b, a, 0), exp, FALSE)

\* 1.0 - x, for x >= 0 below 2^MantissaBits
OneMinus(x) ==
    IF x = Zero THEN Round(1, <<1>>, 0, FALSE)
    ELSE SubAligned(
             Zeros(Len(x.bits) - Len(OneAt(x.exp))) \o OneAt(x.exp),
             Zeros(Len(OneAt(x.exp)) - Len(x.bits)) \o x.bits,
             x.exp)

\* x * m for an int m that is a float exactly (100 is)
Times(x, m) ==
    IF x = Zero THEN Zero ELSE Round(x.sign, MulBits(x.bits, m, 0), x.exp, FALSE)

\* int(x): the integer part of x, rounding toward zero
IntOf(x) ==
    IF x = Zero THEN 0
    ELSE IF x.exp >= 0 THEN x.sign * BitsToInt(x.bits \o Zeros(x.exp))
    ELSE IF 0 - x.exp >= Len(x.bits) THEN 0
    ELSE x.sign * BitsToInt(SubSeq(x.bits, 1, Len(x.bits) + x.exp))

\* CompressionResult.reduction_ratio
ReductionRatio(original, compressed) ==
    IF original = 0 THEN Zero ELSE OneMinus(TrueDiv(compressed, original))

\* CompressionResult.reduction_percent
ReductionPercent(original, compressed) ==
    IntOf(Times(ReductionRatio(original, compressed), 100))

\* CompressionOutcome.reduction_percent
OutcomeReductionPercent(original, final) ==
    IF original = 0 THEN 0
    ELSE IntOf(Times(OneMinus(TrueDiv(final, original)), 100))

\* Largest size the reduction properties are read for.
MaxBytes == 5

RatioInit ==
    /\ rpc = "new"
    /\ r_original \in 0..MaxBytes
    /\ r_compressed \in 0..MaxBytes
    /\ r_ratio = Zero
    /\ r_percent = 0

\* result.reduction_ratio and result.reduction_percent of a CompressionResult
ReadResult ==
    /\ rpc = "new"
    /\ rpc' = "result"
    /\ r_ratio' = ReductionRatio(r_original, r_compressed)
    /\ r_percent' = ReductionPercent(r_original, r_compressed)
    /\ UNCHANGED <<r_original, r_compressed>>
    /\ UNCHANGED <<orchestrator_vars, batch_vars, strategy_vars, command_vars,
                   unlock_vars, pages_vars>>

\* outcome.reduction_percent of a CompressionOutcome
ReadOutcome ==
    /\ rpc = "new"
    /\ rpc' = "outcome"
    /\ r_percent' = OutcomeReductionPercent(r_original, r_compressed)
    /\ UNCHANGED <<r_original, r_compressed, r_ratio>>
    /\ UNCHANGED <<orchestrator_vars, batch_vars, strategy_vars, command_vars,
                   unlock_vars, pages_vars>>

RatioNext == ReadResult \/ ReadOutcome

---------------------------------------------------------------------------
\* One call of one strategy's compress(input_path, output_path, quality)

\* The quality strings a caller may pass: the five presets, and others.
QualityStrings ==
    {"screen", "ebook", "printer", "prepress", "default", "Ebook", "/printer", ""}

\* cmd, the argument list given to subprocess.run
GsCommand(gs_path, inp, out, q) ==
    <<gs_path, "-sDEVICE=pdfwrite", "-dCompatibilityLevel=1.4",
      <<"-dPDFSETTINGS=", QualitySetting(q)>>,
      "-dNOPAUSE", "-dQUIET", "-dBATCH", "-dDetectDuplicateImages=true",
      "-dCompressFonts=true", "-dSubsetFonts=true",
      <<"-sOutputFile=", out>>, inp>>

\* The tool was not run.
NoRun == [kind |-> "none", size |-> 0, partial |-> FALSE, stderr |-> "empty"]

Stage(name, ret) == [stage |-> name, ret |-> ret]

StrategyInit ==
    /\ spc = "call"
    /\ s_name \in {Strategies[i] : i \in 1..Len(Strategies)}
    /\ s_quality \in QualityStrings
    /\ s_files \in {f \in InitFiles : f[OtherPath] = Absent}
    /\ s_original_size = 0
    /\ stages = <<>>
    /\ gs_cmd = <<>>
    /\ gs_did = NoRun
    /\ s_ret = Returned(NoResult, [p \in Paths |-> Absent])

\* compress gives ret to its caller.
StrategyEnds(ret) ==
    /\ s_ret' = ret
    /\ s_files' = ret.files
    /\ spc' = IF ret.raised = "none" THEN "returned" ELSE "raised"

\* PikepdfStrategy().compress(input_path, output_path, quality)
CallPikepdf ==
    /\ spc = "call"
    /\ s_name = "pikepdf"
    /\ \E bp \in PikeBehaviours :
          /\ StrategyEnds(PikepdfCompress(s_files, InputPath, OtherPath, bp))
          /\ stages' = Append(stages, Stage("pikepdf", s_ret'))
    /\ s_original_size' = GetFileSize(s_files, InputPath)
    /\ UNCHANGED <<s_name, s_quality, gs_cmd, gs_did>>
    /\ UNCHANGED <<orchestrator_vars, batch_vars, ratio_vars, command_vars,
                   unlock_vars, pages_vars>>

\* GhostscriptStrategy().compress(input_path, output_path, quality)
CallGhostscript ==
    /\ spc = "call"
    /\ s_name = "ghostscript"
    /\ \E bg \in GsBehaviours :
          /\ StrategyEnds(GhostscriptCompress(s_files, InputPath, OtherPath,
                                              s_quality, bg))
          /\ stages' = Append(stages, Stage("ghostscript", s_ret'))
          /\ gs_did' = bg
    /\ gs_cmd' = GsCommand(FindGhostscript(TRUE), InputPath, OtherPath, s_quality)
    /\ s_original_size' = GetFileSize(s_files, InputPath)
    /\ UNCHANGED <<s_name, s_quality>>
    /\ UNCHANGED <<orchestrator_vars, batch_vars, ratio_vars, command_vars,
                   unlock_vars, pages_vars>>

\* CombinedStrategy().compress, to the return of stage 1: a failed stage 1, or
\* an exception from it, ends the call.
CombinedStage1 ==
    /\ spc = "call"
    /\ s_name = "combined"
    /\ s_original_size' = GetFileSize(s_files, InputPath)
    /\ gs_cmd' = GsCommand(FindGhostscript(TRUE), InputPath, IntermediatePath,
                           s_quality)
    /\ \E bg \in GsBehaviours :
          LET gs == GhostscriptCompress(s_files, InputPath, IntermediatePath,
                                        s_quality, bg)
          IN  /\ gs_did' = bg
              /\ stages' = Append(stages, Stage("ghostscript", gs))
              /\ IF gs.raised = "none" /\ gs.res.success
                 THEN /\ spc' = "stage2"
                      /\ s_files' = gs.files
                      /\ UNCHANGED s_ret
                 ELSE StrategyEnds(
                          CombinedAfterGhostscript(gs, OtherPath, s_quality,
                              PikeDoes("open_fails", 0), s_original_size'))
    /\ UNCHANGED <<s_name, s_quality>>
    /\ UNCHANGED <<orchestrator_vars, batch_vars, ratio_vars, command_vars,
                   unlock_vars, pages_vars>>

\* CombinedStrategy().compress, from the call of stage 2 to the return
CombinedStage2 ==
    /\ spc = "stage2"
    /\ \E bp \in PikeBehaviours :
          LET pike == PikepdfCompress(s_files, IntermediatePath, OtherPath, bp)
          IN  /\ stages' = Append(stages, Stage("pikepdf", pike))
              /\ StrategyEnds(CombinedAfterPikepdf(pike, OtherPath, s_quality,
                                                   s_original_size))
    /\ UNCHANGED <<s_name, s_quality, s_original_size, gs_cmd, gs_did>>
    /\ UNCHANGED <<orchestrator_vars, batch_vars, ratio_vars, command_vars,
                   unlock_vars, pages_vars>>

StrategyNext == CallPikepdf \/ CallGhostscript \/ CombinedStage1 \/ CombinedStage2

---------------------------------------------------------------------------
\* The compress command: main, from its options to the call of the compressor

\* Most files on one command line.
MaxFiles == 2

\* A path is its directory and its name, the name split at its dots.
PathOf(parent, name) == [parent |-> parent, name |-> name]

NoDir == "None"

\* output = None, among paths
NoOutput == PathOf(NoDir, <<>>)

\* Path.stem: the name without its last suffix
Stem(name) == IF Len(name) > 1 THEN SubSeq(name, 1, Len(name) - 1) ELSE name

\* The files a command line may name: three of one directory, two of them
\* differing in the case of the suffix only, and one of another directory with
\* the name of the first.
CommandFiles ==
    {PathOf("a", <<"x", "pdf">>), PathOf("a", <<"y", "pdf">>),
     PathOf("a", <<"x", "PDF">>), PathOf("b", <<"x", "pdf">>)}

\* The lists of distinct files, MaxFiles at most
FileLists ==
    UNION {{f \in [1..n -> CommandFiles] : \A i, j \in 1..n : i # j => f[i] # f[j]} :
             n \in 0..MaxFiles}

\* The values of -Q a command line may carry.
CommandQualities == {"ebook", "EBOOK", "Screen", "default", "best", "/screen"}

\* str.lower
Lower(s) ==
    CASE s = "EBOOK" -> "ebook"
      [] s = "Ebook" -> "ebook"
      [] s = "Screen" -> "screen"
      [] OTHER -> s

\* valid_qualities
ValidQualities == {"screen", "ebook", "printer", "prepress", "default"}

\* quality.lower() in valid_qualities
QualityIsValid(q) == Lower(q) \in ValidQualities

\* _resolve_output_path(input_path, output, output_dir, in_place)
ResolveOutputPath(input_path, output, output_dir, in_place) ==
    IF output # NoOutput THEN output
    ELSE IF in_place THEN input_path
    ELSE IF output_dir # NoDir
    THEN PathOf(output_dir, Stem(input_path.name) \o <<"compressed", "pdf">>)
    ELSE PathOf(input_path.parent, Stem(input_path.name) \o <<"compressed", "pdf">>)

NoExit == 0 - 1

CommandInit ==
    /\ cpc = "main"
    /\ c_files \in FileLists
    /\ c_output \in {NoOutput, PathOf("a", <<"small", "pdf">>)}
    /\ c_output_dir \in {NoDir, "out"}
    /\ c_in_place \in BOOLEAN
    /\ c_quality \in CommandQualities
    /\ c_jobs \in 0..2
    /\ c_dry_run \in BOOLEAN
    /\ c_exit = NoExit
    /\ c_mode = "none"
    /\ c_handed = "none"
    /\ c_workers = 0
    /\ c_tasks = <<>>

\* raise typer.Exit(code)
Exit(code) ==
    /\ cpc' = "exit"
    /\ c_exit' = code

\* main, to the end of its checks: of the files, of the options against each
\* other, of the quality, and of the dependencies
Validate ==
    /\ cpc = "main"
    /\ \E missing \in BOOLEAN :
          IF c_files = <<>> THEN Exit(0)
          ELSE IF c_output # NoOutput /\ Len(c_files) > 1 THEN Exit(1)
          ELSE IF c_output # NoOutput /\ c_in_place THEN Exit(1)
          ELSE IF c_dry_run /\ (c_output # NoOutput \/ c_in_place) THEN Exit(1)
          ELSE IF ~QualityIsValid(c_quality) THEN Exit(1)
          ELSE IF missing THEN Exit(1)
          ELSE cpc' = "checked" /\ UNCHANGED c_exit
    /\ UNCHANGED <<c_files, c_output, c_output_dir, c_in_place, c_quality, c_jobs,
                   c_dry_run, c_mode, c_handed, c_workers, c_tasks>>
    /\ UNCHANGED <<orchestrator_vars, batch_vars, strategy_vars, ratio_vars,
                   unlock_vars, pages_vars>>

\* The confirmation, asked unless the run is dry or quiet
Confirm ==
    /\ cpc = "checked"
    /\ \E quiet \in BOOLEAN, answer \in BOOLEAN :
          IF ~c_dry_run /\ ~quiet /\ ~answer
          THEN Exit(0)
          ELSE cpc' = "confirmed" /\ UNCHANGED c_exit
    /\ UNCHANGED <<c_files, c_output, c_output_dir, c_in_place, c_quality, c_jobs,
                   c_dry_run, c_mode, c_handed, c_workers, c_tasks>>
    /\ UNCHANGED <<orchestrator_vars, batch_vars, strategy_vars, ratio_vars,
                   unlock_vars, pages_vars>>

\* The directory a dry run writes to: temp_path for a dry run
TargetDir == IF c_dry_run THEN "tmp" ELSE c_output_dir

\* _process_parallel: ParallelCompressor(quality, max_workers) and the tasks
\* given to compress_batch
ProcessParallel ==
    /\ cpc = "confirmed"
    /\ Len(c_files) > 1 /\ c_jobs # 1
    /\ cpc' = "compressing"
    /\ c_mode' = "parallel"
    /\ c_handed' = c_quality
    /\ c_workers' = IF c_jobs > 0 THEN c_jobs ELSE 0
    /\ c_tasks' = [i \in 1..Len(c_files) |->
                      <<c_files[i],
                        ResolveOutputPath(c_files[i], NoOutput, TargetDir,
                                          IF c_dry_run THEN FALSE ELSE c_in_place)>>]
    /\ UNCHANGED <<c_files, c_output, c_output_dir, c_in_place, c_quality, c_jobs,
                   c_dry_run, c_exit>>
    /\ UNCHANGED <<orchestrator_vars, batch_vars, strategy_vars, ratio_vars,
                   unlock_vars, pages_vars>>

\* _process_sequential: PDFCompressor(quality) and the paths of its compress
\* calls
ProcessSequential ==
    /\ cpc = "confirmed"
    /\ ~(Len(c_files) > 1 /\ c_jobs # 1)
    /\ cpc' = "compressing"
    /\ c_mode' = "sequential"
    /\ c_handed' = c_quality
    /\ c_tasks' = [i \in 1..Len(c_files) |->
                      <<c_files[i],
                        ResolveOutputPath(c_files[i],
                                          IF c_dry_run THEN NoOutput ELSE c_output,
                                          TargetDir,
                                          IF c_dry_run THEN FALSE ELSE c_in_place)>>]
    /\ UNCHANGED <<c_files, c_output, c_output_dir, c_in_place, c_quality, c_jobs,
                   c_dry_run, c_exit, c_workers>>
    /\ UNCHANGED <<orchestrator_vars, batch_vars, strategy_vars, ratio_vars,
                   unlock_vars, pages_vars>>

CommandNext == Validate \/ Confirm \/ ProcessParallel \/ ProcessSequential

---------------------------------------------------------------------------
\* unlock_pdf(input_path, output_path, password)

UnlockResult(success, was_encrypted, msg) ==
    [input_path |-> InputPath, output_path |-> OtherPath, success |-> success,
     was_encrypted |-> was_encrypted, error_message |-> msg]

NoUnlockResult == UnlockResult(FALSE, FALSE, <<"no result">>)

\* The name NamedTemporaryFile gives the file it creates in output_path.parent
TmpName == "tmpXXXXXXXX.pdf"

\* A finally clause that leaves the temporary file where it is.
FinallyKeeps(tmp_path, tmp) == tmp

\* finally: if tmp_path is not None and tmp_path.exists(): tmp_path.unlink()
Finally(tmp_path, tmp) == IF tmp_path # NoPath /\ tmp # Absent THEN Absent ELSE tmp

\* The password the encrypted input opens with
UserPassword == "secret"

UnlockInit ==
    /\ upc = "call"
    /\ u_input \in {"plain", "encrypted", "unreadable"}
    /\ u_password \in {"", UserPassword, "guess"}
    /\ u_dir \in BOOLEAN
    /\ u_out \in IF u_dir THEN {Absent} \cup {File("old", n) : n \in 1..MaxSize}
                        ELSE {Absent}
    /\ u_out_before = u_out
    /\ u_tmp = Absent
    /\ u_tmp_path = NoPath
    /\ u_failure = "none"
    /\ u_result = NoUnlockResult
    /\ u_exc = "none"

\* The except clauses and the finally clause, for the step that failed: a
\* failed result is returned and the temporary file, left as tmp, is removed.
UnlockFails(step, msg, tmp) ==
    /\ upc' = "returned"
    /\ u_failure' = step
    /\ u_result' = UnlockResult(FALSE, TRUE, msg)
    /\ u_tmp' = Finally(u_tmp_path, tmp)

\* if not is_encrypted(input_path): pikepdf.open without password, of which
\* is_encrypted catches PasswordError only
CheckEncrypted ==
    /\ upc = "call"
    /\ CASE u_input = "plain" ->
               /\ upc' = "returned"
               /\ u_result' = UnlockResult(TRUE, FALSE, NoMessage)
               /\ UNCHANGED <<u_failure, u_exc>>
         [] u_input = "unreadable" ->
               /\ upc' = "raised"
               /\ u_exc' = "PdfError"
               /\ u_failure' = "unreadable"
               /\ UNCHANGED u_result
         [] OTHER ->
               /\ upc' = "try"
               /\ UNCHANGED <<u_failure, u_result, u_exc>>
    /\ UNCHANGED <<u_input, u_password, u_dir, u_out, u_out_before, u_tmp, u_tmp_path>>
    /\ UNCHANGED <<orchestrator_vars, batch_vars, strategy_vars, ratio_vars,
                   command_vars, pages_vars>>

\* tempfile.NamedTemporaryFile(suffix=".pdf", dir=output_path.parent,
\* delete=False), which creates an empty file, or raises
CreateTemp ==
    /\ upc = "try"
    /\ IF u_dir
       THEN /\ upc' = "created"
            /\ u_tmp' = File("tempfile", 0)
            /\ u_tmp_path' = TmpName
            /\ UNCHANGED <<u_failure, u_result>>
       ELSE /\ UNCHANGED u_tmp_path
            /\ UnlockFails("tempfile", <<"str(e)">>, u_tmp)
    /\ UNCHANGED <<u_input, u_password, u_dir, u_out, u_out_before, u_exc>>
    /\ UNCHANGED <<orchestrator_vars, batch_vars, strategy_vars, ratio_vars,
                   command_vars, pages_vars>>

\* with pikepdf.open(input_path, password=password) as pdf: pdf.save(tmp_path)
OpenAndSave ==
    /\ upc = "created"
    /\ \E does \in {"save_fails", "save_fails_midway", "ok"}, size \in 1..MaxSize :
          CASE u_password # UserPassword ->
                   UnlockFails("password", <<"Incorrect password">>, u_tmp)
            [] does = "save_fails" ->
                   UnlockFails("save", <<"str(e)">>, u_tmp)
            [] does = "save_fails_midway" ->
                   UnlockFails("save", <<"str(e)">>, PartialFile)
            [] OTHER ->
                   /\ upc' = "saved"
                   /\ u_tmp' = File("unlocked", size)
                   /\ UNCHANGED <<u_failure, u_result>>
    /\ UNCHANGED <<u_input, u_password, u_dir, u_out, u_out_before, u_tmp_path, u_exc>>
    /\ UNCHANGED <<orchestrator_vars, batch_vars, strategy_vars, ratio_vars,
                   command_vars, pages_vars>>

\* pikepdf.open(tmp_path): the saved file opens without a password, or not
Verify ==
    /\ upc = "saved"
    /\ \E does \in {"still_encrypted", "damaged", "ok"} :
          CASE does = "still_encrypted" ->
                   UnlockFails("verify", <<"Incorrect password">>, u_tmp)
            [] does = "damaged" ->
                   UnlockFails("verify", <<"str(e)">>, u_tmp)
            [] OTHER ->
                   /\ upc' = "verified"
                   /\ UNCHANGED <<u_failure, u_result, u_tmp>>
    /\ UNCHANGED <<u_input, u_password, u_dir, u_out, u_out_before, u_tmp_path, u_exc>>
    /\ UNCHANGED <<orchestrator_vars, batch_vars, strategy_vars, ratio_vars,
                   command_vars, pages_vars>>

\* tmp_path.replace(output_path); tmp_path = None; return UnlockResult(...)
Replace ==
    /\ upc = "verified"
    /\ \E replaced \in BOOLEAN :
          IF replaced
          THEN /\ upc' = "returned"
               /\ u_out' = u_tmp
               /\ u_tmp_path' = NoPath
               /\ u_tmp' = Finally(u_tmp_path', Absent)
               /\ u_result' = UnlockResult(TRUE, TRUE, NoMessage)
               /\ UNCHANGED u_failure
          ELSE /\ UNCHANGED <<u_out, u_tmp_path>>
               /\ UnlockFails("replace", <<"str(e)">>, u_tmp)
    /\ UNCHANGED <<u_input, u_password, u_dir, u_out_before, u_exc>>
    /\ UNCHANGED <<orchestrator_vars, batch_vars, strategy_vars, ratio_vars,
                   command_vars, pages_vars>>

UnlockNext == CheckEncrypted \/ CreateTemp \/ OpenAndSave \/ Verify \/ Replace

---------------------------------------------------------------------------
\* parse_page_spec(spec, total_pages).  A string is the sequence of its
\* characters.

\* Longest specification drawn from SpecChars.
MaxLen == 4

\* Most pages of a document.
MaxPages == 3

Digits == {"0", "1", "2", "3"}

SpecChars == Digits \cup {",", "-", " "}

\* int(c) of one digit
DigitValue(c) ==
    CASE c = "0" -> 0
      [] c = "1" -> 1
      [] c = "2" -> 2
      [] OTHER -> 3

\* str.lower, of one character
LowerChar(c) ==
    CASE c = "A" -> "a"
      [] c = "D" -> "d"
      [] c = "E" -> "e"
      [] c = "L" -> "l"
      [] c = "N" -> "n"
      [] c = "O" -> "o"
      [] c = "V" -> "v"
      [] OTHER -> c

LowerString(str) == [i \in 1..Len(str) |-> LowerChar(str[i])]

\* str.strip
StripString(str) ==
    LET inked == {i \in 1..Len(str) : str[i] # " "}
    IN  IF inked = {} THEN <<>> ELSE SubSeq(str, Least(inked), Greatest(inked))

\* str.split(sep)
RECURSIVE SplitString(_, _)
SplitString(str, sep) ==
    LET at == {i \in 1..Len(str) : str[i] = sep}
    IN  IF at = {} THEN <<str>>
        ELSE <<SubSeq(str, 1, Least(at) - 1)>>
             \o SplitString(SubSeq(str, Least(at) + 1, Len(str)), sep)

AllDigits(str) == str # <<>> /\ \A i \in 1..Len(str) : str[i] \in Digits

\* int(str), for a string of digits
RECURSIVE IntOfDigits(_)
IntOfDigits(str) ==
    IF str = <<>> THEN 0
    ELSE 10 * IntOfDigits(Front(str)) + DigitValue(str[Len(str)])

\* sorted(pages)
Sorted(S) ==
    [i \in 1..Cardinality(S) |->
        CHOOSE x \in S : Cardinality({y \in S : y < x}) = i - 1]

Parsed(raised, message, pages) ==
    [raised |-> raised, message |-> message, pages |-> pages]

PagesFound(pages) == Parsed("none", "", pages)

Invalid(message) == Parsed("ValueError", message, {})

\* re.match(r"^(\d+)-(\d+)$", part): the two groups, or no match
MatchRange(part) ==
    LET dashes == {i \in 1..Len(part) : part[i] = "-"}
        dash == Least(dashes)
    IN  IF /\ Cardinality(dashes) = 1
           /\ AllDigits(SubSeq(part, 1, dash - 1))
           /\ AllDigits(SubSeq(part, dash + 1, Len(part)))
        THEN [matched |-> TRUE,
              start |-> IntOfDigits(SubSeq(part, 1, dash - 1)),
              end |-> IntOfDigits(SubSeq(part, dash + 1, Len(part)))]
        ELSE [matched |-> FALSE, start |-> 0, end |-> 0]

\* The branch for a part with a "-" in it (m: what re.match gave)
ParseRange(m, total_pages, pages) ==
    IF ~m.matched THEN Invalid("Invalid range")
    ELSE IF m.start < 1 \/ m.end > total_pages \/ m.start > m.end
    THEN Invalid("Invalid range")
    ELSE PagesFound(pages \cup (m.start - 1)..(m.end - 1))

\* The branch for a single page: int(part) raises ValueError unless part is a
\* number, and the ValueError for a page out of range is raised again.
ParsePage(part, total_pages, pages) ==
    IF ~AllDigits(part) THEN Invalid("Invalid page number")
    ELSE IF IntOfDigits(part) < 1 \/ IntOfDigits(part) > total_pages
    THEN Invalid("Invalid page")
    ELSE PagesFound(pages \cup {IntOfDigits(part) - 1})

\* One turn of the loop over spec.split(","), for the part stripped
ParsePart(part, total_pages, pages) ==
    IF part = <<>> THEN PagesFound(pages)
    ELSE IF \E i \in 1..Len(part) : part[i] = "-"
    THEN ParseRange(MatchRange(part), total_pages, pages)
    ELSE ParsePage(part, total_pages, pages)

\* The loop over the parts from the i-th on (r: what the turns so far gave)
RECURSIVE ParseParts(_, _, _, _)
ParseParts(parts, i, total_pages, r) ==
    IF r.raised # "none" \/ i > Len(parts) THEN r
    ELSE ParseParts(parts, i + 1, total_pages,
                    ParsePart(StripString(parts[i]), total_pages, r.pages))

\* if not pages: raise ValueError; return sorted(pages)
ParseEnd(r, message) ==
    IF r.raised # "none" THEN Parsed(r.raised, r.message, <<>>)
    ELSE IF r.pages = {} THEN Parsed("ValueError", message, <<>>)
    ELSE Parsed("none", "", Sorted(r.pages))

\* parse_page_spec, from spec.strip().lower() on
ParseStripped(spec, total_pages) ==
    CASE spec = <<"a", "l", "l">> ->
             Parsed("none", "", [i \in 1..total_pages |-> i - 1])
      [] spec = <<"o", "d", "d">> ->
             Parsed("none", "", Sorted({i \in 0..(total_pages - 1) : i % 2 = 0}))
      [] spec = <<"e", "v", "e", "n">> ->
             Parsed("none", "", Sorted({i \in 0..(total_pages - 1) : i % 2 = 1}))
      [] OTHER ->
             ParseEnd(ParseParts(SplitString(spec, ","), 1, total_pages,
                                 PagesFound({})),
                      "No pages specified")

ParsePageSpec(spec, total_pages) ==
    ParseStripped(LowerString(StripString(spec)), total_pages)

RECURSIVE StringsUpTo(_)
\* The strings over SpecChars of n characters at most
StringsUpTo(n) ==
    IF n = 0 THEN {<<>>}
    ELSE StringsUpTo(n - 1)
         \cup {Append(str, c) : str \in {x \in StringsUpTo(n - 1) : Len(x) = n - 1},
                                c \in SpecChars}

\* The keywords, as written and in other spellings, and near misses
KeywordSpecs ==
    {<<"a", "l", "l">>, <<"A", "L", "L">>, <<"o", "d", "d">>,
     <<" ", "O", "d", "d">>, <<"e", "v", "e", "n">>, <<"E", "v", "e", "n", " ">>,
     <<"e", "v", "e", "n", "s">>, <<"1", ",", "a", "l", "l">>}

PagesInit ==
    /\ ppc = "call"
    /\ p_spec \in StringsUpTo(MaxLen) \cup KeywordSpecs
    /\ p_total \in 0..MaxPages
    /\ p_ret = Invalid("not called")

\* parse_page_spec(spec, total_pages)
Parse ==
    /\ ppc = "call"
    /\ ppc' = "done"
    /\ p_ret' = ParsePageSpec(p_spec, p_total)
    /\ UNCHANGED <<p_spec, p_total>>
    /\ UNCHANGED <<orchestrator_vars, batch_vars, strategy_vars, ratio_vars,
                   command_vars, unlock_vars>>

PagesNext == Parse

---------------------------------------------------------------------------
\* Specifications

\* parse_page_spec is not called.
PagesIdle ==
    /\ ppc = "unused"
    /\ p_spec = <<>>
    /\ p_total = 0
    /\ p_ret = Invalid("not called")

\* unlock_pdf is not called.
UnlockIdle ==
    /\ upc = "unused"
    /\ u_input = "plain"
    /\ u_password = ""
    /\ u_dir = TRUE
    /\ u_out = Absent
    /\ u_out_before = Absent
    /\ u_tmp = Absent
    /\ u_tmp_path = NoPath
    /\ u_failure = "none"
    /\ u_result = NoUnlockResult
    /\ u_exc = "none"

\* The compress command is not run.
CommandIdle ==
    /\ cpc = "unused"
    /\ c_files = <<>>
    /\ c_output = NoOutput
    /\ c_output_dir = NoDir
    /\ c_in_place = FALSE
    /\ c_quality = "ebook"
    /\ c_jobs = 0
    /\ c_dry_run = FALSE
    /\ c_exit = NoExit
    /\ c_mode = "none"
    /\ c_handed = "none"
    /\ c_workers = 0
    /\ c_tasks = <<>>

\* No reduction property is read.
RatioIdle ==
    /\ rpc = "unused"
    /\ r_original = 0
    /\ r_compressed = 0
    /\ r_ratio = Zero
    /\ r_percent = 0

\* No strategy is called on its own.
StrategyIdle ==
    /\ spc = "unused"
    /\ s_name = "none"
    /\ s_quality = "screen"
    /\ s_files = [p \in Paths |-> Absent]
    /\ s_original_size = 0
    /\ stages = <<>>
    /\ gs_cmd = <<>>
    /\ gs_did = NoRun
    /\ s_ret = Returned(NoResult, [p \in Paths |-> Absent])

\* The batch executor is not in use.
BatchIdle ==
    /\ bpc = "unused"
    /\ tasks = <<>>
    /\ has_callback = FALSE
    /\ workers_arg = 0
    /\ cpu_count = 0
    /\ max_workers = 1
    /\ plan = <<>>
    /\ inputs = <<>>
    /\ outputs = <<>>
    /\ fut = <<>>
    /\ died = {}
    /\ outcomes = <<>>
    /\ collected = <<>>
    /\ cb_log = <<>>
    /\ batch_exc = "none"
    /\ batch_result = <<>>

\* No single-file caller: the orchestrator runs inside the pool's workers.
OrchestratorIdle ==
    /\ pc = "unused"
    /\ fs = [p \in Paths |-> Absent]
    /\ gs_found = TRUE
    /\ quality = "screen"
    /\ output_path = OtherPath
    /\ original_size = 0
    /\ results = <<>>
    /\ calls = <<>>
    /\ outcome = NoOutcome
    /\ exc = "none"
    /\ exc_at = "none"
    /\ copy_src = NoOutput
    /\ copy_data = Absent

Init ==
    /\ OrchestratorInit
    /\ BatchIdle
    /\ StrategyIdle
    /\ RatioIdle
    /\ CommandIdle
    /\ UnlockIdle
    /\ PagesIdle

Next == OrchestratorNext

\* One call of PDFCompressor(quality).compress(input, output)
Spec == Init /\ [][Next]_vars

InitBatch ==
    /\ BatchInit
    /\ OrchestratorIdle
    /\ StrategyIdle
    /\ RatioIdle
    /\ CommandIdle
    /\ UnlockIdle
    /\ PagesIdle

\* One call of ParallelCompressor(quality, max_workers).compress_batch(tasks, on_complete)
SpecBatch == InitBatch /\ [][BatchNext]_vars

InitStrategy ==
    /\ StrategyInit
    /\ OrchestratorIdle
    /\ BatchIdle
    /\ RatioIdle
    /\ CommandIdle
    /\ UnlockIdle
    /\ PagesIdle

InitRatio ==
    /\ RatioInit
    /\ OrchestratorIdle
    /\ BatchIdle
    /\ StrategyIdle
    /\ CommandIdle
    /\ UnlockIdle
    /\ PagesIdle

\* The reduction properties of one result or outcome
SpecRatio == InitRatio /\ [][RatioNext]_vars

\* One call of one strategy's compress
SpecStrategy == InitStrategy /\ [][StrategyNext]_vars

InitCommand ==
    /\ CommandInit
    /\ OrchestratorIdle
    /\ BatchIdle
    /\ StrategyIdle
    /\ RatioIdle
    /\ UnlockIdle
    /\ PagesIdle

\* One run of the compress command, to the call of the compressor
SpecCommand == InitCommand /\ [][CommandNext]_vars

InitUnlock ==
    /\ UnlockInit
    /\ OrchestratorIdle
    /\ BatchIdle
    /\ StrategyIdle
    /\ RatioIdle
    /\ CommandIdle
    /\ PagesIdle

\* One call of unlock_pdf(input_path, output_path, password)
SpecUnlock == InitUnlock /\ [][UnlockNext]_vars

InitPages ==
    /\ PagesInit
    /\ OrchestratorIdle
    /\ BatchIdle
    /\ StrategyIdle
    /\ RatioIdle
    /\ CommandIdle
    /\ UnlockIdle

\* One call of parse_page_spec(spec, total_pages)
SpecPages == InitPages /\ [][PagesNext]_vars

---------------------------------------------------------------------------
\* Properties of the orchestrator (under Spec)

\* The successful results strictly smaller than the original
Candidates == {i \in 1..Len(results) :
                 results[i].success /\ results[i].compressed_size < original_size}

\* The smallest candidate, the earliest registered among equals (0: none)
Winner ==
    IF Candidates = {} THEN 0
    ELSE CHOOSE i \in Candidates :
           \A j \in Candidates :
              \/ results[i].compressed_size < results[j].compressed_size
              \/ results[i].compressed_size = results[j].compressed_size /\ i <= j

\* compress has made its choice: it returned, or its final copy raised.
Chose == pc = "returned" \/ exc_at = "copy"

\* C1: compress picks the successful result with the smallest size strictly
\* below the original, the earliest registered among equal sizes: the final copy
\* reads that result's temporary file, and the outcome returned carries its
\* strategy_name and compressed_size and leaves that file's bytes at the output
\* path.
C1_SmallestEarliestWins ==
    (Chose /\ Winner # 0) =>
        /\ copy_src = TmpSlot(Winner)
        /\ pc = "returned" =>
              /\ outcome.best_strategy = results[Winner].strategy_name
              /\ outcome.final_size = results[Winner].compressed_size
              /\ fs[output_path] = copy_data

\* Sizes 2, 1, 1 for a 3-byte original (900, 700, 700 for 1000): the second wins.
C1_Witness ==
    /\ pc = "returned"
    /\ original_size = 3
    /\ \A i \in 1..3 : results[i].success
    /\ results[1].compressed_size = 2
    /\ results[2].compressed_size = 1
    /\ results[3].compressed_size = 1
    /\ outcome.best_strategy = <<"ghostscript", quality>>
    /\ fs[output_path] = File("ghostscript", 1)

\* C2: when every strategy failed or no successful result is strictly smaller
\* than the original, the outcome returned has best_strategy "none" and
\* final_size = original_size, and the output path holds the input's bytes.
C2_NoImprovementKeepsOriginal ==
    (pc = "returned" /\ Candidates = {}) =>
        /\ outcome.best_strategy = <<"none">>
        /\ outcome.final_size = original_size
        /\ copy_src = InputPath
        /\ fs[InputPath] = File("orig", original_size)
        /\ fs[output_path] = fs[InputPath]

\* A successful result exactly as large as the original, and the original kept.
C2_Witness ==
    /\ pc = "returned"
    /\ \E i \in 1..3 : results[i].success /\ results[i].compressed_size = original_size
    /\ outcome.best_strategy = <<"none">>
    /\ fs[OtherPath] = fs[InputPath]

\* C7: no strategy's compress lets an exception reach its caller, and every
\* failed result carries an error message.
C7_StrategiesNeverRaise ==
    /\ exc_at # "strategy"
    /\ \A i \in 1..Len(results) :
          ~results[i].success => results[i].error_message # NoMessage

\* C8: while the temporary directory lives, no file is at the output path of a
\* strategy whose result is failed.
C8_NoFileLeftOnFailure ==
    pc = "strategies" =>
        \A i \in 1..Len(results) : ~results[i].success => ~Exists(fs, TmpSlot(i))

\* C9: PDFCompressor.compress never raises to its caller: whatever goes wrong
\* after construction is reported in a returned outcome (an interrupt of the
\* caller aside).
C9_CompressNeverRaises == exc_at \in {"none", "ctor", "interrupt"}

\* C10: when Ghostscript cannot be found the orchestrator is still constructed.
C10_MissingToolKeepsOrchestrator == ~gs_found => exc_at # "ctor"

\* C11: the destination changes in one step only, the final copy after all
\* three strategies have returned, which leaves there the bytes of the file it
\* read; a run that raises or is interrupted before that leaves the destination
\* as it was before the call.
C11_DestinationWrittenOnlyAtEnd ==
    [][fs'[output_path] # fs[output_path] =>
          /\ pc = "strategies"
          /\ Len(results) = Len(Strategies)
          /\ pc' = "returned"
          /\ fs'[output_path] = fs[copy_src']]_vars

\* Interrupted during the second strategy, after the first wrote its output:
\* the file that was at the destination is still there.
C11_Witness ==
    /\ exc_at = "interrupt"
    /\ Len(results) = 1
    /\ results[1].success
    /\ output_path = OtherPath
    /\ fs[OtherPath] = File("old", 1)

\* C15: once compress has returned or raised, no strategy_i.pdf of its
\* temporary directory is left, whoever won and wherever it failed; and
\* whenever CombinedStrategy.compress is over, its gs_output.pdf is gone.
C15_TemporaryFilesRemoved ==
    /\ pc \in {"returned", "raised"} =>
          \A i \in 1..Len(TmpSlots) : ~Exists(fs, TmpSlot(i))
    /\ ~Exists(fs, IntermediatePath)

\* All three strategies wrote their outputs, the combined one through its
\* intermediate file, and the final copy failed.
C15_Witness ==
    /\ exc_at = "copy"
    /\ \A i \in 1..Len(Strategies) : results[i].success
    /\ results[3].compressed_size < original_size
    /\ \A i \in 1..Len(TmpSlots) : ~Exists(fs, TmpSlot(i))

\* C26: in place (output path = input path), with a destination that can be
\* written and a winner whose file exists, compress returns an outcome once
\* it has made its choice, with a winner or without; the file then holds the
\* winner's bytes when a strategy won, and the original bytes when
\* best_strategy is "none".
C26_InPlaceReturnsOutcome ==
    (output_path = InputPath /\ Chose
        /\ exc \notin {"PermissionError", "FileNotFoundError"}) =>
        /\ pc = "returned"
        /\ Winner # 0 =>
              /\ outcome.best_strategy = results[Winner].strategy_name
              /\ fs[InputPath] = copy_data
              /\ fs[InputPath].size = results[Winner].compressed_size
        /\ Winner = 0 =>
              /\ outcome.best_strategy = <<"none">>
              /\ fs[InputPath] = File("orig", original_size)

\* C29: every outcome compress returns has final_size <= original_size, and
\* best_strategy = "none", final_size = original_size and improved = false hold
\* together or not at all; for an input of zero bytes they hold.
C29_NoneIffSameSizeIffNotImproved ==
    pc = "returned" =>
        /\ outcome.original_size = original_size
        /\ outcome.final_size <= outcome.original_size
        /\ outcome.best_strategy = <<"none">>
              <=> outcome.final_size = outcome.original_size
        /\ outcome.final_size = outcome.original_size <=> ~Improved(outcome)
        /\ outcome.original_size = 0 => outcome.best_strategy = <<"none">>

\* A zero-byte input for which a strategy succeeded with a zero-byte output:
\* the outcome is "none", not improved.
C29_Witness ==
    /\ pc = "returned"
    /\ outcome.original_size = 0
    /\ \E i \in 1..Len(results) :
          results[i].success /\ results[i].compressed_size = 0
    /\ outcome.best_strategy = <<"none">>
    /\ outcome.final_size = 0
    /\ ~Improved(outcome)

\* compress has called a strategy and is over, without being interrupted.
RanToItsEnd ==
    pc \in {"returned", "raised"} /\ calls # <<>> /\ exc_at # "interrupt"

\* C24: the strategy.compress calls made are, in this order, pikepdf,
\* ghostscript and combined, each at most once and each with a temporary output
\* path of its own; once compress has called the first and has ended without
\* being interrupted it has called all three, whatever the earlier ones did;
\* and all_results of the outcome returned holds the three results in that
\* order.
C24_EachStrategyOnceInOrder ==
    /\ Len(calls) <= Len(Strategies)
    /\ \A i \in 1..Len(calls) :
          /\ calls[i][1] = Strategies[i]
          /\ calls[i][2] \notin {InputPath, output_path}
          /\ \A j \in 1..Len(calls) : i # j => calls[i][2] # calls[j][2]
    /\ RanToItsEnd => Len(calls) = Len(Strategies)
    /\ pc = "returned" =>
          /\ Len(outcome.all_results) = Len(Strategies)
          /\ \A i \in 1..Len(Strategies) :
                /\ outcome.all_results[i] = results[i]
                /\ outcome.all_results[i].strategy_name[1] = Strategies[i]

---------------------------------------------------------------------------
\* Properties of one strategy call (under SpecStrategy)

\* The i-th compress call made gave a successful result.
StageSucceeded(i) ==
    i <= Len(stages) /\ stages[i].ret.raised = "none" /\ stages[i].ret.res.success

\* The i-th compress call made gave a failed result.
StageFailed(i) ==
    i <= Len(stages) /\ stages[i].ret.raised = "none" /\ ~stages[i].ret.res.success

\* C12: in CombinedStrategy.compress the first stage called is Ghostscript;
\* when it gives a failed result pikepdf is never called and the result is
\* failed with the stage-1 prefix; when stage 1 succeeds and pikepdf fails the
\* result is failed with the stage-2 prefix, a different one; a successful
\* result means Ghostscript, then pikepdf, both succeeded.
C12_CombinedShortCircuits ==
    s_name = "combined" =>
        /\ Len(stages) >= 1 => stages[1].stage = "ghostscript"
        /\ Len(stages) >= 2 => stages[2].stage = "pikepdf" /\ StageSucceeded(1)
        /\ Len(stages) <= 2
        /\ StageFailed(1) =>
              /\ Len(stages) = 1
              /\ spc = "returned"
              /\ ~s_ret.res.success
              /\ s_ret.res.error_message[1] = "Ghostscript stage failed: "
        /\ (spc = "returned" /\ StageSucceeded(1) /\ StageFailed(2)) =>
              /\ ~s_ret.res.success
              /\ s_ret.res.error_message[1] = "Pikepdf stage failed: "
              /\ s_ret.res.error_message[1] # "Ghostscript stage failed: "
        /\ (spc = "returned" /\ s_ret.res.success) =>
              StageSucceeded(1) /\ StageSucceeded(2)

\* Stage 1 succeeded, stage 2 failed, and the result says so.
C12_Witness ==
    /\ s_name = "combined"
    /\ spc = "returned"
    /\ StageSucceeded(1)
    /\ StageFailed(2)
    /\ s_ret.res.error_message = <<"Pikepdf stage failed: ", "cannot save">>

\* The message names a timeout.
NamesTimeout(msg) ==
    \E k \in 1..Len(msg) : msg[k] = "Ghostscript timeout exceeded (5 minutes)"

\* The message is the tool-error one and carries the diagnostics captured.
CarriesDiagnostics(msg, stderr) ==
    /\ Len(msg) = 2
    /\ msg[1] = "Ghostscript error: "
    /\ stderr = "text" => msg[2] = "diagnostics"

\* C13: a Ghostscript run that exceeds the timeout gives a failed result whose
\* message names the timeout and is not the tool-error message; a run that
\* exits non-zero gives a failed result whose message carries the captured
\* diagnostics and does not name a timeout.
C13_TimeoutDistinctFromToolError ==
    (s_name = "ghostscript" /\ spc # "call") =>
        /\ gs_did.kind = "timeout" =>
              /\ spc = "returned"
              /\ ~s_ret.res.success
              /\ NamesTimeout(s_ret.res.error_message)
              /\ ~CarriesDiagnostics(s_ret.res.error_message, gs_did.stderr)
        /\ gs_did.kind = "exit_nonzero" =>
              /\ spc = "returned"
              /\ ~s_ret.res.success
              /\ CarriesDiagnostics(s_ret.res.error_message, gs_did.stderr)
              /\ ~NamesTimeout(s_ret.res.error_message)

\* output_path is set if and only if success, and a failed result has size 0.
WellFormed(res) ==
    /\ res.output_path # NoPath <=> res.success
    /\ ~res.success => res.compressed_size = 0

\* C14: every CompressionResult a strategy returns, the composed strategy's
\* stages included, has output_path set if and only if success is true, and
\* compressed_size 0 when success is false.
C14_ResultWellFormed ==
    /\ spc = "returned" => WellFormed(s_ret.res)
    /\ \A i \in 1..Len(stages) :
          stages[i].ret.raised = "none" => WellFormed(stages[i].ret.res)

\* Ghostscript timed out after it began to write: the result is failed, names
\* no output and has size 0, though a file is at the output path.
C14_Witness ==
    /\ s_name = "ghostscript"
    /\ spc = "returned"
    /\ gs_did.kind = "timeout"
    /\ Exists(s_files, OtherPath)
    /\ ~s_ret.res.success
    /\ s_ret.res.output_path = NoPath
    /\ s_ret.res.compressed_size = 0

\* C20: whenever a strategy has run Ghostscript, the command carried
\* -dPDFSETTINGS=/screen, /ebook, /printer, /prepress or /default for the
\* quality of that name and /screen for any other quality string, and the tool
\* was run with it, whatever the quality string.
C20_QualityMapsToPdfSettings ==
    (s_name \in {"ghostscript", "combined"} /\ spc # "call") =>
        /\ gs_did # NoRun
        /\ Len(gs_cmd) = 12
        /\ gs_cmd[4] =
              <<"-dPDFSETTINGS=",
                CASE s_quality = "screen" -> "/screen"
                  [] s_quality = "ebook" -> "/ebook"
                  [] s_quality = "printer" -> "/printer"
                  [] s_quality = "prepress" -> "/prepress"
                  [] s_quality = "default" -> "/default"
                  [] s_quality \notin {"screen", "ebook", "printer", "prepress",
                                       "default"} -> "/screen">>

\* A quality string that is no preset: the tool ran with /screen and succeeded.
C20_Witness ==
    /\ s_name = "ghostscript"
    /\ s_quality = "Ebook"
    /\ spc = "returned"
    /\ gs_did.kind = "ok"
    /\ gs_cmd[4] = <<"-dPDFSETTINGS=", "/screen">>
    /\ s_ret.res.success
    /\ s_ret.res.strategy_name = <<"ghostscript", "Ebook">>

\* The result is successful only with a file at its output_path, of the size
\* it reports.
BackedByFile(res, files) ==
    res.success =>
        /\ res.output_path # NoPath
        /\ Exists(files, res.output_path)
        /\ res.compressed_size = files[res.output_path].size

\* C27: when a strategy's compress returns success = true, a file is at the
\* output_path returned and compressed_size is that file's size, also when the
\* external tool exited with status 0 without writing its output.
C27_SuccessMeansFileExists ==
    spc = "returned" => BackedByFile(s_ret.res, s_files)

---------------------------------------------------------------------------
\* Properties of the reduction figures (under SpecRatio)

\* floor(100 * (1 - compressed / original)) in exact arithmetic
ExactPercent(original, compressed) ==
    IF original = 0 THEN 0 ELSE (100 * (original - compressed)) \div original

\* 0 <= x <= 1
InUnitInterval(x) ==
    \/ x = Zero
    \/ x.sign = 1 /\ x.exp + MantissaBits <= 0
    \/ x = Round(1, <<1>>, 0, FALSE)

\* C16: reduction_percent, of a CompressionResult and of a CompressionOutcome,
\* is floor(100 * (1 - compressed/original)), 0 when original is 0; the ratio
\* is 0 when original is 0; and when compressed <= original the ratio is in
\* [0, 1] and the percent in [0, 100].
C16_ReductionPercentIsFloor ==
    rpc \in {"result", "outcome"} =>
        /\ r_percent = ExactPercent(r_original, r_compressed)
        /\ r_original = 0 => r_ratio = Zero
        /\ r_compressed <= r_original =>
              /\ InUnitInterval(r_ratio)
              /\ r_percent \in 0..100

---------------------------------------------------------------------------
\* Properties of the batch executor (under SpecBatch)

\* The on_complete calls made for task i
CallsFor(i) == Cardinality({k \in 1..Len(cb_log) : cb_log[k][1] = i})

\* compress_batch is over (a call that could not create its pool aside)
BatchOver == bpc \in {"returned", "raised"} /\ batch_exc # "ValueError"

\* C3: compress_batch returns one outcome per task, the i-th carrying the i-th
\* task's input and output path, whatever the order the futures completed in.
C3_OneOutcomePerTaskInOrder ==
    bpc = "returned" =>
        /\ Len(batch_result) = Len(tasks)
        /\ \A i \in 1..Len(batch_result) :
              /\ i <= Len(tasks)
              /\ batch_result[i].input_path = tasks[i][1]
              /\ batch_result[i].output_path = tasks[i][2]

\* Two tasks, the second collected first, and the batch returned.
C3_Witness ==
    /\ bpc = "returned"
    /\ Len(tasks) = 2
    /\ collected = <<2, 1>>
    /\ batch_result[1].input_path = BatchInputs[1]
    /\ batch_result[1].best_strategy # <<"error">>

\* C4: on_complete is never called twice for one task, and once compress_batch
\* is over it has been called exactly once for every task.
C4_CallbackExactlyOnce ==
    has_callback =>
        /\ \A i \in TaskIds : CallsFor(i) <= 1
        /\ BatchOver => \A i \in TaskIds : CallsFor(i) = 1

\* The tasks some worker is running
Running == {i \in TaskIds : fut[i].state = "running"}

\* C17: once the executor is constructed its worker count is the override
\* given when that is positive, and otherwise min(CPU count, 8) with 4 for an
\* unknown CPU count; and never are more tasks running than the worker count.
C17_WorkerCountBoundsConcurrency ==
    bpc # "new" =>
        /\ max_workers = IF workers_arg > 0 THEN workers_arg
                         ELSE IF cpu_count = 0 THEN 4
                         ELSE IF cpu_count <= 8 THEN cpu_count
                         ELSE 8
        /\ Cardinality(Running) <= max_workers

\* C18: when compress_batch has returned, every task's future is done and was
\* collected, no task is queued or running in the pool, and every result slot
\* holds an outcome, the one returned for that task.
C18_ReturnsAfterAllTasks ==
    bpc = "returned" =>
        /\ Running = {}
        /\ Len(batch_result) = Len(tasks)
        /\ \A i \in TaskIds :
              /\ Done(fut[i])
              /\ \E k \in 1..Len(collected) : collected[k] = i
              /\ outcomes[i] # NoOutcome
              /\ batch_result[i] = outcomes[i]

\* Two tasks on one worker, both compressed, and the batch returned.
C18_Witness ==
    /\ bpc = "returned"
    /\ Len(tasks) = 2
    /\ max_workers = 1
    /\ \A i \in TaskIds : fut[i].state = "result" /\ outcomes[i] = fut[i].value

\* The place of task i among the results collected (0: not collected yet)
Place(i) ==
    IF \E k \in 1..Len(collected) : collected[k] = i
    THEN CHOOSE k \in 1..Len(collected) : collected[k] = i
    ELSE 0

\* C19: the on_complete calls follow the order the results were collected in:
\* every call is for a task already collected, a task collected earlier has its
\* calls earlier, and once a result is collected its call has been made, before
\* any later result is collected.
C19_CallbacksInCompletionOrder ==
    has_callback =>
        /\ \A a \in 1..Len(cb_log) : Place(cb_log[a][1]) # 0
        /\ \A a, b \in 1..Len(cb_log) :
              a < b => Place(cb_log[a][1]) <= Place(cb_log[b][1])
        /\ \A k \in 1..Len(collected) : CallsFor(collected[k]) >= 1

\* The second task's result came first, and so did its callback.
C19_Witness ==
    /\ has_callback
    /\ collected = <<2, 1>>
    /\ Len(cb_log) = 2
    /\ cb_log[1][1] = 2
    /\ cb_log[2][1] = 1

\* C25: the slot of every task collected whose worker returned an outcome
\* holds that outcome, not one with best_strategy "error", whatever on_complete
\* did when called for it.
C25_RealOutcomeNeverReplaced ==
    \A k \in 1..Len(collected) :
       fut[collected[k]].state = "result" =>
          /\ outcomes[collected[k]] = fut[collected[k]].value
          /\ outcomes[collected[k]].best_strategy # <<"error">>

\* _show_summary: total_original and total_final over the first n outcomes
RECURSIVE SummaryTotals(_, _)
SummaryTotals(os, n) ==
    IF n = 0 THEN [original |-> 0, final |-> 0]
    ELSE [original |-> SummaryTotals(os, n - 1).original + os[n].original_size,
          final |-> SummaryTotals(os, n - 1).final + os[n].final_size]

\* The bytes the first n tasks saved: original size less final size, of the
\* tasks that were compressed
RECURSIVE BytesSaved(_, _)
BytesSaved(os, n) ==
    IF n = 0 THEN 0
    ELSE BytesSaved(os, n - 1)
         + IF os[n].best_strategy = <<"error">> THEN 0
           ELSE os[n].original_size - os[n].final_size

\* C30: in the list compress_batch returns, an outcome is improved only if its
\* task left an output file strictly smaller than its input; an outcome with
\* best_strategy "error" is not improved and has no positive
\* reduction_percent; and the difference of the summary's totals is the bytes
\* saved by the tasks that were compressed.
C30_ErrorOutcomeNotImproved ==
    bpc = "returned" =>
        /\ \A i \in 1..Len(batch_result) :
              /\ Improved(batch_result[i]) =>
                    /\ outputs[i] # Absent
                    /\ outputs[i].size < batch_result[i].original_size
              /\ batch_result[i].best_strategy = <<"error">> =>
                    /\ ~Improved(batch_result[i])
                    /\ OutcomeReductionPercent(batch_result[i].original_size,
                                               batch_result[i].final_size) <= 0
        /\ SummaryTotals(batch_result, Len(batch_result)).original
             - SummaryTotals(batch_result, Len(batch_result)).final
           = BytesSaved(batch_result, Len(batch_result))

\* A future that holds an exception: the worker raised, or the pool broke.
Failed(i) == fut[i].state \in {"exception", "broken"}

\* C5: a failed future does not end compress_batch: its task's slot gets an
\* outcome with best_strategy "error", final_size 0, no results, the task's own
\* paths and the input's size on disk (0 when the file is gone), and when
\* compress_batch is over no slot is empty.
C5_FailedTaskGetsErrorOutcome ==
    /\ \A k \in 1..Len(collected) :
          Failed(collected[k]) =>
             outcomes[collected[k]] =
                CompressionOutcome(tasks[collected[k]][1], tasks[collected[k]][2],
                    IF inputs[collected[k]] # Absent
                    THEN inputs[collected[k]].size ELSE 0,
                    0, <<"error">>, <<>>)
    /\ (\E i \in TaskIds : Failed(i)) => batch_exc = "none"
    /\ BatchOver => \A i \in TaskIds : outcomes[i] # NoOutcome

\* What task j's worker returns when nothing disturbs it
Undisturbed(j) ==
    CompressSingle(ArgsOf(j), File("orig", MaxSize), Absent, gs_found, plan[j])

\* C6: in a batch without callback, every task whose own worker neither raised
\* nor died ends with the outcome its worker returns when left alone, whatever
\* happened to the workers of the other tasks.
C6_FailureStaysWithItsTask ==
    (bpc = "returned" /\ ~has_callback) =>
        \A j \in TaskIds :
           (j \notin died /\ Undisturbed(j).raised = "none") =>
              outcomes[j] = Undisturbed(j).outcome

---------------------------------------------------------------------------
\* Properties of the compress command (under SpecCommand)

\* The command has passed its checks.
PassedChecks == cpc \in {"checked", "confirmed", "compressing"}

\* C21: a run of the compress command passes its checks only with a quality
\* that is one of the five presets, every other string ending the run with
\* exit code 1 before a compressor is made; so the quality PDFCompressor or
\* ParallelCompressor is constructed with is one of the five presets and maps
\* to its own PDFSETTINGS value, never through the fallback.
C21_OnlyPresetsReachCompressor ==
    /\ PassedChecks => c_quality \in ValidQualities
    /\ (cpc = "exit" /\ c_exit = 1) => c_mode = "none"
    /\ cpc = "compressing" =>
          /\ c_handed \in ValidQualities
          /\ c_handed \in {"screen", "ebook", "printer", "prepress", "default"}
          /\ QualitySetting(c_handed) = QualitySetting(Lower(c_quality))

\* C28: the tasks of a parallel batch made from distinct input files, named by
\* default, into an output directory or for a dry run, have pairwise distinct
\* output paths.
C28_BatchOutputsDistinct ==
    (cpc = "compressing" /\ c_mode = "parallel" /\ (c_dry_run \/ ~c_in_place)) =>
        \A i, j \in 1..Len(c_tasks) :
           c_tasks[i][1] # c_tasks[j][1] => c_tasks[i][2] # c_tasks[j][2]

---------------------------------------------------------------------------
\* Properties of unlock_pdf (under SpecUnlock)

\* C22: the file at output_path differs from the one before the call only
\* after unlock_pdf returned success for an encrypted input, and is then the
\* saved and re-opened file; when the temporary file cannot be created, the
\* password is wrong, the save fails, the saved file does not re-open or the
\* replace fails, a failed UnlockResult with a message is returned and the
\* output is as before; and once unlock_pdf is over, no temporary file is left.
C22_OutputWrittenOnlyOnSuccess ==
    /\ u_out # u_out_before =>
          /\ upc = "returned"
          /\ u_failure = "none"
          /\ u_result.success /\ u_result.was_encrypted
          /\ u_out.by = "unlocked"
    /\ u_failure \in {"tempfile", "password", "save", "verify", "replace"} =>
          /\ upc = "returned"
          /\ ~u_result.success
          /\ u_result.error_message # NoMessage
          /\ u_out = u_out_before
    /\ upc \in {"returned", "raised"} => u_tmp = Absent

\* The save failed: the old output is still there, the temporary file is not.
C22_Witness ==
    /\ upc = "returned"
    /\ u_failure = "save"
    /\ u_tmp_path = TmpName
    /\ u_tmp = Absent
    /\ u_out_before = File("old", 1)
    /\ u_out = File("old", 1)
    /\ ~u_result.success

---------------------------------------------------------------------------
\* Properties of parse_page_spec (under SpecPages)

\* The characters of the page numbers 1, 2, 3
PageChars == <<"1", "2", "3">>

\* Strictly ascending, every element a page of the document, counted from 0
ValidPages(pages, total_pages) ==
    /\ \A i, j \in 1..Len(pages) : i < j => pages[i] < pages[j]
    /\ \A i \in 1..Len(pages) : 0 <= pages[i] /\ pages[i] < total_pages

\* The specification is the single page k.
NamesPage(k) == p_spec = <<PageChars[k]>>

\* The specification is the range a-b.
NamesRange(a, b) == p_spec = <<PageChars[a], "-", PageChars[b]>>

\* C23: parse_page_spec raises ValueError or returns a strictly ascending list
\* of pages p with 0 <= p < total_pages; page k of the specification comes
\* back as k - 1 and range a-b as a - 1, ..., b - 1; it raises for page 0, for
\* a page above total_pages and for a range whose start exceeds its end; and
\* it never returns for a specification that names no page, that is, the list
\* it returns is never empty.
C23_PageSpecYieldsValidPages ==
    ppc = "done" =>
        /\ p_ret.raised \in {"none", "ValueError"}
        /\ p_ret.raised = "none" => ValidPages(p_ret.pages, p_total)
        /\ \A k \in 1..Len(PageChars) :
              NamesPage(k) =>
                 IF k <= p_total THEN p_ret.raised = "none" /\ p_ret.pages = <<k - 1>>
                 ELSE p_ret.raised = "ValueError"
        /\ p_spec = <<"0">> => p_ret.raised = "ValueError"
        /\ \A a, b \in 1..Len(PageChars) :
              NamesRange(a, b) =>
                 IF a <= b /\ b <= p_total
                 THEN /\ p_ret.raised = "none"
                      /\ p_ret.pages = [i \in 1..(b - a + 1) |-> a + i - 2]
                 ELSE p_ret.raised = "ValueError"
        /\ p_ret.raised = "none" => p_ret.pages # <<>>

====
